---- MODULE Spec2Model ----
(***************************************************************************)
(* The policy resolver of runtime-enforcer.  The repository carries three  *)
(* revisions of internal/resolver/policy.go:                               *)
(*   "part_002"  handleWPUpdate(oldWp, newWp) with handleContainerAddition *)
(*               / handleContainerRemoval (src/unnamed/part_002)           *)
(*   "policy.go" syncWorkloadPolicyFromSpec (src/internal/resolver)        *)
(*   "part_001"  syncWorkloadPolicy, removePolicyFromPod and the policy    *)
(*               status (src/unnamed/part_001)                             *)
(* The variable impl selects the revision a behaviour runs.  Every handler *)
(* runs under the resolver mutex, so one action is one whole handler.      *)
(***************************************************************************)
EXTENDS Integers, Sequences, FiniteSets, TLC

VARIABLES impl, wpState, nextPolicyID, podCache, cgroupIDToPodID,
          policyValues, policyMode, cgroupToPolicy,
          nextCgroupID, lastSpec, opCount, failures, last,
          rateLimiters, logOutput, logCalls,
          vbRecords, vbMu, vbRecorder, vbScraper, vbDrained, vbHistory,
          ring, ctxDone, consumer, outChan, delivered, logTask,
          call, nri, detect, mx

\* the log rate limiters of internal/bpf (src/unnamed/part_009), the records
\* the logger has emitted and the number of logEvent calls per limiter
logVars == <<rateLimiters, logOutput, logCalls>>

\* the violation buffer (internal/violationbuf): its map and mutex, the
\* position of the goroutine calling Record and of the one calling Drain, the
\* results Drain has returned, and the history of the Record calls
bufVars == <<vbRecords, vbMu, vbRecorder, vbScraper, vbDrained, vbHistory>>

resolverVars == <<impl, wpState, nextPolicyID, podCache, cgroupIDToPodID,
                  policyValues, policyMode, cgroupToPolicy,
                  nextCgroupID, lastSpec, opCount, failures, last>>

\* the ring-buffer consumers of internal/bpf: the process-event ring and its
\* reader, the context, the position of processRingbufEvents, its output
\* channel, the events the subscriber received, and the position of
\* loggerStart with its reader
ringVars == <<ring, ctxDone, consumer, outChan, delivered, logTask>>

\* the variable call holds one call of a function of internal/cgroups or
\* internal/bpf: the function, its argument and its result

\* the variable nri holds the NRI handler's reconnect loop (Handler.Start):
\* its position, its context and the waits and attempts it has made; the
\* variable detect holds the package state of internal/cgroups behind
\* GetCgroupInfo and the goroutines calling it; the variable mx holds the
\* resolver mutex r.mu and the goroutines that run resolver methods step by step

\* what the actions of one component leave alone
exceptResolver == <<logVars, bufVars, ringVars, call, nri, detect, mx>>
exceptLogger == <<resolverVars, bufVars, ringVars, call, nri, detect, mx>>
exceptBuffer == <<resolverVars, logVars, ringVars, call, nri, detect, mx>>
exceptRing == <<resolverVars, logVars, bufVars, call, nri, detect, mx>>
exceptCall == <<resolverVars, logVars, bufVars, ringVars, nri, detect, mx>>
exceptNri == <<resolverVars, logVars, bufVars, ringVars, call, detect, mx>>
exceptDetect == <<resolverVars, logVars, bufVars, ringVars, call, nri, mx>>
exceptMutex == <<logVars, bufVars, ringVars, call, nri, detect>>

vars == <<impl, wpState, nextPolicyID, podCache, cgroupIDToPodID,
          policyValues, policyMode, cgroupToPolicy,
          nextCgroupID, lastSpec, opCount, failures, last,
          rateLimiters, logOutput, logCalls,
          vbRecords, vbMu, vbRecorder, vbScraper, vbDrained, vbHistory,
          ring, ctxDone, consumer, outChan, delivered, logTask,
          call, nri, detect, mx>>

----------------------------------------------------------------------------
(* Bounds and input sets *)

MaxPolicyID == 4
MaxCgroupID == 3
MaxOps == 3
MaxFailures == 1
MaxLogCalls == 4
TicksPerSecond == 2
MaxRecords == 4
MaxDrains == 2
MaxRingRecords == 3
ChanCap == 1
MaxLogReads == 2
MaxTokens == 6
MaxLines == 16
MaxOtherLines == 2
MaxExtraLen == 4
MaxAttempts == 4
MaxDetectCalls == 4
MaxMutexOps == 3

PolicyIDNone == 0

Impls == {"part_002", "policy.go", "part_001"}
Namespaces == {"A", "B"}
PolicyNames == {"p"}
ContainerNames == {"c", "d"}

\* NamespacedName(): "<namespace>/<name>", kept as the pair it is built from
WpKeys == Namespaces \X PolicyNames

\* the pods the container runtime may report: uid |-> namespace, policy label
\* ("" when the pod carries no policy label) and the container names it runs
PodInfo ==
    [pod1 |-> [namespace |-> "A", label |-> "p", containers |-> {"c", "d"}],
     pod2 |-> [namespace |-> "A", label |-> "p", containers |-> {"d"}],
     pod3 |-> [namespace |-> "B", label |-> "p", containers |-> {"d"}],
     pod4 |-> [namespace |-> "A", label |-> "", containers |-> {"c"}]]
PodIDs == DOMAIN PodInfo

\* the WorkloadPolicy objects delivered: identity, mode and RulesByContainer.
\* A revision of a policy is monitor with c allowed /bin/a, or protect with c
\* allowed /bin/a and /bin/b; d is allowed /bin/a.
PolicyVariants ==
    {[mode |-> "monitor", allowed |-> {"/bin/a"}],
     [mode |-> "protect", allowed |-> {"/bin/a", "/bin/b"}]}
WorkloadPolicies ==
    {[namespace |-> ns, name |-> "p", mode |-> v.mode,
      rules |-> [x \in S |-> IF x = "c" THEN v.allowed ELSE {"/bin/a"}]] :
        ns \in {"A"}, v \in PolicyVariants, S \in SUBSET ContainerNames}
    \cup
    {[namespace |-> "B", name |-> "p", mode |-> "protect",
      rules |-> [x \in S |-> IF x = "c" THEN {"/bin/a", "/bin/b"} ELSE {"/bin/a"}]] :
        S \in {{"d"}, {"c", "d"}}}

NamespacedName(wp) == <<wp.namespace, wp.name>>

----------------------------------------------------------------------------
(* Finite maps *)

MapPut(f, k, v) == [x \in DOMAIN f \cup {k} |-> IF x = k THEN v ELSE f[x]]
MapDel(f, k) == [x \in DOMAIN f \ {k} |-> f[x]]
EmptyMap == <<>>

FoldSeq(Op(_, _), acc, s) ==
    LET F[i \in 0..Len(s)] == IF i = 0 THEN acc ELSE Op(F[i - 1], s[i])
    IN  F[Len(s)]

\* all orders in which a Go range may visit the set S
Orders(S) ==
    {s \in [1..Cardinality(S) -> S] : \A i, j \in 1..Cardinality(S) : i # j => s[i] # s[j]}

\* the visiting order of the subset T under the order ord of a superset
Visit(ord, T) == SelectSeq(ord, LAMBDA x : x \in T)

----------------------------------------------------------------------------
(* Mode conversions (internal/types/policymode) *)

\* policymode.ParseMode: the spec's mode string to the u8 kept in policy_mode
ParseMode(s) == CASE s = "monitor" -> 1 [] s = "protect" -> 2 [] OTHER -> 0

\* policymode.ParsePolicyModeToProto: the mode string to the agentv1.PolicyMode
ParsePolicyModeToProto(s) ==
    CASE s = "monitor" -> "POLICY_MODE_MONITOR"
      [] s = "protect" -> "POLICY_MODE_PROTECT"
      [] OTHER -> "POLICY_MODE_UNSPECIFIED"

----------------------------------------------------------------------------
(* The state one handler works on while it holds r.mu.                      *)
(*   wp, next, pods, cg2pod : the resolver's fields                        *)
(*   vals, mode, cg         : the kernel maps policy_values, policy_mode,  *)
(*                            cgroup_to_policy                             *)
(*   err    : the error being returned, innermost message last (<<>> = nil)*)
(*   n      : kernel-map calls issued so far                               *)
(*   failAt : the call that fails with a syscall error (0 = none)          *)
(*   calls  : the kernel-map calls issued, in order                        *)
(*   new    : syncWorkloadPolicy's newContainers                           *)
(*   nameOrd, cgOrd : the orders in which this run's range loops visit     *)
(*                    container names and containers                      *)

NoError == <<>>

\* wpInfo{polByContainer: state} with the zero PolicyStatus
ZeroStatus == [state |-> "POLICY_STATE_UNSPECIFIED", mode |-> "POLICY_MODE_UNSPECIFIED", message |-> NoError]
NewWpInfo == [polByContainer |-> EmptyMap, status |-> ZeroStatus]

Machine(nameOrd, cgOrd, failAt) ==
    [wp |-> wpState, next |-> nextPolicyID, pods |-> podCache, cg2pod |-> cgroupIDToPodID,
     vals |-> policyValues, mode |-> policyMode, cg |-> cgroupToPolicy,
     err |-> NoError, n |-> 0, failAt |-> failAt, calls |-> <<>>, new |-> EmptyMap,
     nameOrd |-> nameOrd, cgOrd |-> cgOrd]

Ok(m) == m.err = NoError

\* fmt.Errorf("<msg>: %w", err) around the call that took before to after
Wrapped(before, after, msg) ==
    IF Ok(before) /\ ~Ok(after) THEN [after EXCEPT !.err = <<msg>> \o @] ELSE after

\* return fmt.Errorf("<msg>") without a kernel call
Errorf(m, msg) == IF Ok(m) THEN [m EXCEPT !.err = <<msg>>] ELSE m

----------------------------------------------------------------------------
(* Kernel map facade.  A call either fails as a whole (the failAt-th call)  *)
(* and changes nothing, or applies its operation.                          *)

KernelCall(m, c) == [m EXCEPT !.n = @ + 1, !.calls = Append(@, c)]
KernelFail(m, c) ==
    [m EXCEPT !.n = @ + 1, !.calls = Append(@, [c EXCEPT !.ok = FALSE]), !.err = <<"kernel map error">>]

\* r.policyUpdateBinariesFunc(polID, values, op)
policyUpdateBinariesFunc(m, polID, values, op) ==
    LET c == [fn |-> "policy_values", op |-> op, id |-> polID, arg |-> values, ok |-> TRUE] IN
    IF ~Ok(m) THEN m
    ELSE IF m.n + 1 = m.failAt THEN KernelFail(m, c)
    ELSE [KernelCall(m, c) EXCEPT !.vals =
            IF op = "RemoveValuesFromPolicy" THEN MapDel(@, polID) ELSE MapPut(@, polID, values)]

\* r.policyModeUpdateFunc(polID, mode, op)
policyModeUpdateFunc(m, polID, mode, op) ==
    LET c == [fn |-> "policy_mode", op |-> op, id |-> polID, arg |-> mode, ok |-> TRUE] IN
    IF ~Ok(m) THEN m
    ELSE IF m.n + 1 = m.failAt THEN KernelFail(m, c)
    ELSE [KernelCall(m, c) EXCEPT !.mode =
            IF op = "DeleteMode" THEN MapDel(@, polID) ELSE MapPut(@, polID, mode)]

\* r.cgroupToPolicyMapUpdateFunc(polID, cgroupIDs, op)
cgroupToPolicyMapUpdateFunc(m, polID, cgroupIDs, op) ==
    LET c == [fn |-> "cgroup_to_policy", op |-> op, id |-> polID, arg |-> cgroupIDs, ok |-> TRUE]
        ids == {cgroupIDs[i] : i \in DOMAIN cgroupIDs}
    IN
    IF ~Ok(m) THEN m
    ELSE IF m.n + 1 = m.failAt THEN KernelFail(m, c)
    ELSE [KernelCall(m, c) EXCEPT !.cg =
            CASE op = "AddPolicyToCgroups" ->
                    [x \in DOMAIN @ \cup ids |-> IF x \in ids THEN polID ELSE @[x]]
              [] op = "RemoveCgroups" -> [x \in DOMAIN @ \ ids |-> @[x]]
              [] op = "RemovePolicy" -> [x \in {y \in DOMAIN @ : @[y] # polID} |-> @[x]]]

----------------------------------------------------------------------------
(* Pod cache helpers *)

\* podState.policyLabel() / podNamespace()
policyLabel(pod) == PodInfo[pod].label
podNamespace(pod) == PodInfo[pod].namespace

\* podState.matchPolicy(policyName): the pod carries the policy label with
\* this value; its callers pass wp.Name alone
matchPolicy(pod, policyName) == policyLabel(pod) # "" /\ policyLabel(pod) = policyName

LiveCgroups(pods) == UNION {DOMAIN pods[p] : p \in DOMAIN pods}

\* range r.podCache: the cached pods in the order cgOrd first reaches them
PodOrder(m) ==
    FoldSeq(LAMBDA acc, cg :
                LET p == CHOOSE q \in DOMAIN m.pods : cg \in DOMAIN m.pods[q] IN
                IF \E i \in DOMAIN acc : acc[i] = p THEN acc ELSE Append(acc, p),
            <<>>, m.cgOrd)

\* range state.containers
ContainerOrder(m, pod) == Visit(m.cgOrd, DOMAIN m.pods[pod])

----------------------------------------------------------------------------
(* Code the three revisions share *)

\* allocPolicyID without r.nextPolicyID++
allocPolicyID_noIncrement(m) == m

\* allocPolicyID: id := r.nextPolicyID; r.nextPolicyID++
allocPolicyID(m) == [m EXCEPT !.next = @ + 1]

\* the wpState entry of a key as a container -> policy ID map
PolByContainer(m, key) == m.wp[key].polByContainer
SetPolicyID(m, key, name, polID) ==
    [m EXCEPT !.wp[key].polByContainer = MapPut(@, name, polID)]
DeletePolicyID(m, key, name) ==
    [m EXCEPT !.wp[key].polByContainer = MapDel(@, name)]

\* applyPolicyToPod: bind every container of the pod that has an entry in applied
applyPolicyToPod(m, pod, applied) ==
    FoldSeq(LAMBDA acc, cg :
                IF ~Ok(acc) \/ acc.pods[pod][cg] \notin DOMAIN applied THEN acc
                ELSE Wrapped(acc,
                             cgroupToPolicyMapUpdateFunc(acc, applied[acc.pods[pod][cg]],
                                                         <<cg>>, "AddPolicyToCgroups"),
                             "failed to add policy to cgroups"),
            m, ContainerOrder(m, pod))

\* the error of applyPolicyToPodIfPresent for a label without a record
PolicyDoesNotExist == <<"pod has policy label but policy does not exist">>

\* applyPolicyToPodIfPresent looking the policy up by the label alone, in any
\* namespace
applyPolicyToPodIfPresent_anyNamespace(m, pod) ==
    IF policyLabel(pod) = "" THEN m
    ELSE LET keys == {k \in DOMAIN m.wp : k[2] = policyLabel(pod)} IN
         IF keys = {}
         THEN Errorf(m, PolicyDoesNotExist[1])
         ELSE applyPolicyToPod(m, pod, PolByContainer(m, CHOOSE k \in keys : TRUE))

\* applyPolicyToPodIfPresent: the pod's policy is looked up by
\* "<pod namespace>/<policy label>"
applyPolicyToPodIfPresent(m, pod) ==
    IF policyLabel(pod) = "" THEN m
    ELSE LET key == <<podNamespace(pod), policyLabel(pod)>> IN
         IF key \notin DOMAIN m.wp
         THEN Errorf(m, PolicyDoesNotExist[1])
         ELSE applyPolicyToPod(m, pod, PolByContainer(m, key))

\* the loop "for _, podState := range r.podCache { if !podState.matchPolicy(name)
\* { continue }; applyPolicyToPod(podState, applied) }"
ApplyToMatchingPods(m, policyName, applied) ==
    FoldSeq(LAMBDA acc, pod :
                IF ~Ok(acc) \/ ~matchPolicy(pod, policyName) THEN acc
                ELSE applyPolicyToPod(acc, pod, applied),
            m, PodOrder(m))

\* getCgroupIDsForContainer(policyName, containerName)
getCgroupIDsForContainer(m, policyName, containerName) ==
    SelectSeq(m.cgOrd,
              LAMBDA cg : LET pod == CHOOSE q \in DOMAIN m.pods : cg \in DOMAIN m.pods[q] IN
                          matchPolicy(pod, policyName) /\ m.pods[pod][cg] = containerName)

\* handleWPDelete without its policyModeUpdateFunc(policyID, 0, DeleteMode) call
handleWPDelete_keepsMode(m, wp) ==
    LET key == NamespacedName(wp) IN
    IF key \notin DOMAIN m.wp
    THEN Errorf(m, "workload policy does not exist in internal state")
    ELSE LET state == PolByContainer(m, key)
             m1 == [m EXCEPT !.wp = MapDel(@, key)]
         IN  FoldSeq(LAMBDA acc, name :
                         LET a1 == Wrapped(acc,
                                       cgroupToPolicyMapUpdateFunc(acc, state[name], <<>>, "RemovePolicy"),
                                       "failed to remove policy from cgroup map")
                         IN  Wrapped(a1,
                                     policyUpdateBinariesFunc(a1, state[name], {}, "RemoveValuesFromPolicy"),
                                     "failed to remove policy values"),
                     m1, Visit(m.nameOrd, DOMAIN state))

\* handleWPDelete: the three revisions issue the same calls
handleWPDelete(m, wp) ==
    LET key == NamespacedName(wp) IN
    IF key \notin DOMAIN m.wp
    THEN Errorf(m, "workload policy does not exist in internal state")
    ELSE LET state == PolByContainer(m, key)
             m1 == [m EXCEPT !.wp = MapDel(@, key)]
         IN  FoldSeq(LAMBDA acc, name :
                         LET a1 == Wrapped(acc,
                                       cgroupToPolicyMapUpdateFunc(acc, state[name], <<>>, "RemovePolicy"),
                                       "failed to remove policy from cgroup map")
                             a2 == Wrapped(a1,
                                       policyUpdateBinariesFunc(a1, state[name], {}, "RemoveValuesFromPolicy"),
                                       "failed to remove policy values")
                         IN  Wrapped(a2,
                                     policyModeUpdateFunc(a2, state[name], 0, "DeleteMode"),
                                     "failed to remove policy from policy mode map"),
                     m1, Visit(m.nameOrd, DOMAIN state))

----------------------------------------------------------------------------
(* Revision "policy.go" (src/internal/resolver/policy.go) *)

\* syncWorkloadPolicyFromSpec(wp, state)
syncWorkloadPolicyFromSpec(m, wp) ==
    LET key == NamespacedName(wp) IN
    FoldSeq(LAMBDA acc, name :
                IF ~Ok(acc) THEN acc
                ELSE LET ok == name \in DOMAIN PolByContainer(acc, key)
                         polID == IF ok THEN PolByContainer(acc, key)[name] ELSE acc.next
                         a1 == IF ok THEN acc ELSE SetPolicyID(allocPolicyID(acc), key, name, polID)
                         op == IF ok THEN "ReplaceValuesInPolicy" ELSE "AddValuesToPolicy"
                         a2 == Wrapped(a1, policyUpdateBinariesFunc(a1, polID, wp.rules[name], op),
                                       "failed to populate policy values")
                     IN  Wrapped(a2, policyModeUpdateFunc(a2, polID, ParseMode(wp.mode), "UpdateMode"),
                                 "failed to set policy mode"),
            m, Visit(m.nameOrd, DOMAIN wp.rules))

\* handleWPAdd without the test for an existing record
handleWPAdd_policy_go_noExistsCheck(m, wp) ==
    LET key == NamespacedName(wp)
        m1 == [m EXCEPT !.wp = MapPut(@, key, NewWpInfo)]
        m2 == syncWorkloadPolicyFromSpec(m1, wp)
    IN  IF ~Ok(m2) THEN m2
        ELSE ApplyToMatchingPods(m2, wp.name, PolByContainer(m2, key))

handleWPAdd_policy_go(m, wp) ==
    LET key == NamespacedName(wp) IN
    IF key \in DOMAIN m.wp
    THEN Errorf(m, "workload policy already exists in internal state")
    ELSE LET m1 == [m EXCEPT !.wp = MapPut(@, key, NewWpInfo)]
             m2 == syncWorkloadPolicyFromSpec(m1, wp)
         IN  IF ~Ok(m2) THEN m2
             ELSE ApplyToMatchingPods(m2, wp.name, PolByContainer(m2, key))

handleWPUpdate_policy_go(m, wp) ==
    LET key == NamespacedName(wp) IN
    IF key \notin DOMAIN m.wp
    THEN Errorf(m, "workload policy does not exist in internal state")
    ELSE LET m1 == syncWorkloadPolicyFromSpec(m, wp)
             removedContainers == DOMAIN PolByContainer(m1, key) \ DOMAIN wp.rules
             m2 == FoldSeq(LAMBDA acc, name :
                       IF ~Ok(acc) THEN acc
                       ELSE LET policyID == PolByContainer(acc, key)[name]
                                cgroupIDs == getCgroupIDsForContainer(acc, wp.name, name)
                                a1 == IF Len(cgroupIDs) > 0
                                      THEN Wrapped(acc,
                                               cgroupToPolicyMapUpdateFunc(acc, PolicyIDNone, cgroupIDs, "RemoveCgroups"),
                                               "failed to remove cgroups")
                                      ELSE acc
                                a2 == Wrapped(a1,
                                          policyUpdateBinariesFunc(a1, policyID, {}, "RemoveValuesFromPolicy"),
                                          "failed to remove policy values")
                                a3 == Wrapped(a2,
                                          policyModeUpdateFunc(a2, policyID, 0, "DeleteMode"),
                                          "failed to remove policy from policy mode map")
                            IN  IF Ok(a3) THEN DeletePolicyID(a3, key, name) ELSE a3,
                       m1, Visit(m.nameOrd, removedContainers))
         IN  IF ~Ok(m2) THEN m2
             ELSE ApplyToMatchingPods(m2, wp.name, PolByContainer(m2, key))

----------------------------------------------------------------------------
(* Revision "part_001" (src/unnamed/part_001) *)

\* wpInfo.setPolicyStatus
setPolicyStatus(m, key, state, mode, message) ==
    [m EXCEPT !.wp[key].status = [state |-> state, mode |-> mode, message |-> message]]

\* the deferred function never recording the error
DeferredStatus_skipped(m, key, mode) == m

\* the deferred function of handleWPAdd / handleWPUpdate: err != nil && info != nil
DeferredStatus(m, key, mode) ==
    IF ~Ok(m) /\ key \in DOMAIN m.wp
    THEN setPolicyStatus(m, key, "POLICY_STATE_ERROR", mode, m.err)
    ELSE m

\* upsertPolicyIDInBPF rolling back: when the mode call fails it removes the
\* values it has just written
upsertPolicyIDInBPF_rollsBack(m, policyID, allowedBinaries, mode, valuesOp) ==
    LET m1 == policyUpdateBinariesFunc(m, policyID, allowedBinaries, valuesOp)
        m2 == policyModeUpdateFunc(m1, policyID, mode, "UpdateMode")
    IN  IF Ok(m1) /\ ~Ok(m2)
        THEN [policyUpdateBinariesFunc([m2 EXCEPT !.err = NoError], policyID, {},
                                       "RemoveValuesFromPolicy") EXCEPT !.err = m2.err]
        ELSE m2

\* upsertPolicyIDInBPF(policyID, allowedBinaries, mode, valuesOp)
upsertPolicyIDInBPF(m, policyID, allowedBinaries, mode, valuesOp) ==
    LET m1 == policyUpdateBinariesFunc(m, policyID, allowedBinaries, valuesOp)
    IN  policyModeUpdateFunc(m1, policyID, mode, "UpdateMode")

clearPolicyIDFromBPF(m, policyID) ==
    LET m1 == policyUpdateBinariesFunc(m, policyID, {}, "RemoveValuesFromPolicy")
    IN  policyModeUpdateFunc(m1, policyID, 0, "DeleteMode")

\* removePolicyFromPod passing PolicyIDNone with AddPolicyToCgroups instead of
\* RemoveCgroups
removePolicyFromPod_addsPolicyIDNone(m, key, pod, removed) ==
    FoldSeq(LAMBDA acc, cg :
                IF ~Ok(acc) \/ acc.pods[pod][cg] \notin DOMAIN removed THEN acc
                ELSE LET name == acc.pods[pod][cg]
                         a1 == Wrapped(acc,
                                   cgroupToPolicyMapUpdateFunc(acc, PolicyIDNone, <<cg>>, "AddPolicyToCgroups"),
                                   "failed to remove cgroups")
                         a2 == Wrapped(a1, clearPolicyIDFromBPF(a1, removed[name]),
                                       "failed to clear policy")
                     IN  IF Ok(a2) THEN DeletePolicyID(a2, key, name) ELSE a2,
            m, ContainerOrder(m, pod))

\* removePolicyFromPod(wpKey, podState, wpState, removed)
removePolicyFromPod(m, key, pod, removed) ==
    FoldSeq(LAMBDA acc, cg :
                IF ~Ok(acc) \/ acc.pods[pod][cg] \notin DOMAIN removed THEN acc
                ELSE LET name == acc.pods[pod][cg]
                         a1 == Wrapped(acc,
                                   cgroupToPolicyMapUpdateFunc(acc, PolicyIDNone, <<cg>>, "RemoveCgroups"),
                                   "failed to remove cgroups")
                         a2 == Wrapped(a1, clearPolicyIDFromBPF(a1, removed[name]),
                                       "failed to clear policy")
                     IN  IF Ok(a2) THEN DeletePolicyID(a2, key, name) ELSE a2,
            m, ContainerOrder(m, pod))

\* syncWorkloadPolicy allocating a policy ID for every container of the spec,
\* whether the record has one or not
syncWorkloadPolicy_alwaysAllocates(m, wp) ==
    FoldSeq(LAMBDA acc, name :
                IF ~Ok(acc) THEN acc
                ELSE LET polID == acc.next
                         a1 == [allocPolicyID(acc) EXCEPT !.new = MapPut(@, name, polID)]
                     IN  Wrapped(a1, upsertPolicyIDInBPF(a1, polID, wp.rules[name], ParseMode(wp.mode),
                                                         "AddValuesToPolicy"),
                                 "failed to populate policy"),
            [m EXCEPT !.new = EmptyMap], Visit(m.nameOrd, DOMAIN wp.rules))

\* syncWorkloadPolicy(wp): the result's new field is newContainers
syncWorkloadPolicy(m, wp) ==
    LET key == NamespacedName(wp) IN
    FoldSeq(LAMBDA acc, name :
                IF ~Ok(acc) THEN acc
                ELSE LET hadPolicyID == name \in DOMAIN PolByContainer(acc, key)
                         polID == IF hadPolicyID THEN PolByContainer(acc, key)[name] ELSE acc.next
                         a1 == IF hadPolicyID THEN acc
                               ELSE [allocPolicyID(acc) EXCEPT !.new = MapPut(@, name, polID)]
                         op == IF hadPolicyID THEN "ReplaceValuesInPolicy" ELSE "AddValuesToPolicy"
                     IN  Wrapped(a1, upsertPolicyIDInBPF(a1, polID, wp.rules[name], ParseMode(wp.mode), op),
                                 "failed to populate policy"),
            [m EXCEPT !.new = EmptyMap], Visit(m.nameOrd, DOMAIN wp.rules))

\* for containerName, policyID := range newContainers { state[containerName] = policyID }
MergeNewContainers(m, key) ==
    [m EXCEPT !.wp[key].polByContainer =
        [x \in DOMAIN @ \cup DOMAIN m.new |-> IF x \in DOMAIN m.new THEN m.new[x] ELSE @[x]]]

\* handleWPAdd without its search for pods that match the policy
handleWPAdd_part_001_noPodSearch(m, wp) ==
    LET key == NamespacedName(wp)
        mode == ParsePolicyModeToProto(wp.mode)
    IN
    IF key \in DOMAIN m.wp
    THEN Errorf(m, "workload policy already exists in internal state")
    ELSE LET m1 == [m EXCEPT !.wp = MapPut(@, key, NewWpInfo)]
             m2 == syncWorkloadPolicy(m1, wp)
             m3 == IF Ok(m2) THEN MergeNewContainers(m2, key) ELSE m2
         IN  IF Ok(m3) THEN setPolicyStatus(m3, key, "POLICY_STATE_READY", mode, NoError)
             ELSE DeferredStatus(m3, key, mode)

handleWPAdd_part_001(m, wp) ==
    LET key == NamespacedName(wp)
        mode == ParsePolicyModeToProto(wp.mode)
    IN
    IF key \in DOMAIN m.wp
    THEN Errorf(m, "workload policy already exists in internal state")
    ELSE LET m1 == [m EXCEPT !.wp = MapPut(@, key, NewWpInfo)]
             m2 == syncWorkloadPolicy(m1, wp)
             m3 == IF Ok(m2) THEN MergeNewContainers(m2, key) ELSE m2
             m4 == IF Ok(m3) THEN ApplyToMatchingPods(m3, wp.name, PolByContainer(m3, key)) ELSE m3
         IN  IF Ok(m4) THEN setPolicyStatus(m4, key, "POLICY_STATE_READY", mode, NoError)
             ELSE DeferredStatus(m4, key, mode)

\* handleWPUpdate handing the object to handleWPAdd, so that a key without a
\* record gets one
handleWPUpdate_part_001_addsUnknown(m, wp) ==
    handleWPAdd_part_001(m, wp)

handleWPUpdate_part_001(m, wp) ==
    LET key == NamespacedName(wp)
        mode == ParsePolicyModeToProto(wp.mode)
    IN
    IF key \notin DOMAIN m.wp
    THEN Errorf(m, "workload policy does not exist in internal state")
    ELSE LET m1 == syncWorkloadPolicy(m, wp)
             m2 == IF Ok(m1) THEN MergeNewContainers(m1, key) ELSE m1
             state == PolByContainer(m2, key)
             appliedMap == [x \in DOMAIN state \cap DOMAIN wp.rules |-> state[x]]
             removedMap == [x \in DOMAIN state \ DOMAIN wp.rules |-> state[x]]
             m3 == FoldSeq(LAMBDA acc, pod :
                       IF ~Ok(acc) \/ ~matchPolicy(pod, wp.name) THEN acc
                       ELSE LET a1 == removePolicyFromPod(acc, key, pod, removedMap)
                            IN  IF Ok(a1) THEN applyPolicyToPod(a1, pod, appliedMap) ELSE a1,
                       m2, PodOrder(m2))
         IN  IF Ok(m3) THEN setPolicyStatus(m3, key, "POLICY_STATE_READY", mode, NoError)
             ELSE DeferredStatus(m3, key, mode)

----------------------------------------------------------------------------
(* Revision "part_002" (src/unnamed/part_002) *)

handleWPAdd_part_002(m, wp) ==
    LET key == NamespacedName(wp) IN
    IF key \in DOMAIN m.wp
    THEN Errorf(m, "workload policy already exists in internal state")
    ELSE LET m1 == [m EXCEPT !.wp = MapPut(@, key, NewWpInfo)]
             m2 == FoldSeq(LAMBDA acc, name :
                       IF ~Ok(acc) THEN acc
                       ELSE LET polID == acc.next
                                a1 == allocPolicyID(acc)
                                a2 == Wrapped(a1,
                                          policyUpdateBinariesFunc(a1, polID, wp.rules[name], "AddValuesToPolicy"),
                                          "failed to populate policy values")
                                a3 == Wrapped(a2,
                                          policyModeUpdateFunc(a2, polID, ParseMode(wp.mode), "UpdateMode"),
                                          "failed to set policy mode")
                            IN  IF Ok(a3) THEN SetPolicyID(a3, key, name, polID) ELSE a3,
                       m1, Visit(m.nameOrd, DOMAIN wp.rules))
         IN  IF ~Ok(m2) THEN m2
             ELSE ApplyToMatchingPods(m2, wp.name, PolByContainer(m2, key))

\* handleContainerAddition(wpKey, containerName, newRules, newWp, state)
handleContainerAddition(m, name, newWp) ==
    LET key == NamespacedName(newWp)
        polID == m.next
        a1 == allocPolicyID(m)
        a2 == Wrapped(a1,
                  policyUpdateBinariesFunc(a1, polID, newWp.rules[name], "AddValuesToPolicy"),
                  "failed to populate policy values")
        a3 == Wrapped(a2,
                  policyModeUpdateFunc(a2, polID, ParseMode(newWp.mode), "UpdateMode"),
                  "failed to set policy mode")
    IN  IF ~Ok(a3) THEN a3
        ELSE LET a4 == SetPolicyID(a3, key, name, polID)
             IN  ApplyToMatchingPods(a4, newWp.name, PolByContainer(a4, key))

\* handleContainerRemoval(wpKey, containerName, policyID, newWp, state)
handleContainerRemoval(m, name, policyID, newWp) ==
    LET key == NamespacedName(newWp)
        cgroupIDs == getCgroupIDsForContainer(m, newWp.name, name)
        a1 == IF Len(cgroupIDs) > 0
              THEN Wrapped(m,
                       cgroupToPolicyMapUpdateFunc(m, PolicyIDNone, cgroupIDs, "RemoveCgroups"),
                       "failed to remove cgroups")
              ELSE m
        a2 == Wrapped(a1,
                  policyUpdateBinariesFunc(a1, policyID, {}, "RemoveValuesFromPolicy"),
                  "failed to remove policy values")
        a3 == Wrapped(a2,
                  policyModeUpdateFunc(a2, policyID, 0, "DeleteMode"),
                  "failed to remove policy from policy mode map")
    IN  IF Ok(a3) THEN DeletePolicyID(a3, key, name) ELSE a3

\* updateExistingContainersExecutables(wpKey, oldWp, newWp, state)
updateExistingContainersExecutables(m, oldWp, newWp) ==
    LET key == NamespacedName(newWp) IN
    FoldSeq(LAMBDA acc, name :
                IF ~Ok(acc) \/ name \notin DOMAIN oldWp.rules \/ name \notin DOMAIN newWp.rules
                THEN acc
                ELSE Wrapped(acc,
                         policyUpdateBinariesFunc(acc, PolByContainer(acc, key)[name],
                                                  newWp.rules[name], "ReplaceValuesInPolicy"),
                         "failed to replace policy values"),
            m, Visit(m.nameOrd, DOMAIN PolByContainer(m, key)))

handleWPUpdate_part_002(m, oldWp, newWp) ==
    LET key == NamespacedName(newWp) IN
    IF key \notin DOMAIN m.wp
    THEN Errorf(m, "workload policy does not exist in internal state")
    ELSE LET \* containers that exist in newWp but not in oldWp
             m1 == FoldSeq(LAMBDA acc, name :
                       IF ~Ok(acc) \/ name \in DOMAIN oldWp.rules THEN acc
                       ELSE handleContainerAddition(acc, name, newWp),
                       m, Visit(m.nameOrd, DOMAIN newWp.rules))
             \* containers of the state that are not in newWp
             m2 == IF ~Ok(m1) THEN m1
                   ELSE FoldSeq(LAMBDA acc, name :
                            IF ~Ok(acc) \/ name \in DOMAIN newWp.rules THEN acc
                            ELSE handleContainerRemoval(acc, name, PolByContainer(acc, key)[name], newWp),
                            m1, Visit(m.nameOrd, DOMAIN PolByContainer(m1, key)))
             m3 == IF ~Ok(m2) THEN m2 ELSE updateExistingContainersExecutables(m2, oldWp, newWp)
         IN  IF ~Ok(m3) THEN m3
             ELSE FoldSeq(LAMBDA acc, name :
                      Wrapped(acc,
                          policyModeUpdateFunc(acc, PolByContainer(acc, key)[name],
                                               ParseMode(newWp.mode), "UpdateMode"),
                          "failed to set policy mode"),
                      m3, Visit(m.nameOrd, DOMAIN PolByContainer(m3, key)))

----------------------------------------------------------------------------
(* Pod cache operations *)

\* Resolver.AddPodFromNRI: record the container under its pod, then bind it.
\* A pod whose policy label names no record is not a failure of the start (the
\* policy is bound when it is added); a kernel-map error is returned.
AddPodFromNRI(m, pod, name, cgID) ==
    LET containers == IF pod \in DOMAIN m.pods THEN m.pods[pod] ELSE EmptyMap
        m1 == [m EXCEPT !.pods = MapPut(@, pod, MapPut(containers, cgID, name)),
                        !.cg2pod = MapPut(@, cgID, pod)]
        m2 == applyPolicyToPodIfPresent(m1, pod)
    IN  IF m2.err = PolicyDoesNotExist THEN [m2 EXCEPT !.err = NoError] ELSE m2

\* container exit: drop the container, and the pod with its last container
RemoveContainer(m, cgID) ==
    LET pod == m.cg2pod[cgID]
        rest == MapDel(m.pods[pod], cgID)
    IN  [m EXCEPT !.pods = IF DOMAIN rest = {} THEN MapDel(@, pod) ELSE MapPut(@, pod, rest),
                  !.cg2pod = MapDel(@, cgID)]

----------------------------------------------------------------------------
(* Log rate limiting (src/unnamed/part_009) *)

suppressionMsg == "logs suppressed by rate limiting"

\* dropExecLimiter and dropViolationLimiter with the message logEventMsg
\* passes to each
Limiters == {"dropExecLimiter", "dropViolationLimiter"}
LimiterMsg ==
    [dropExecLimiter |-> "dropped exec event", dropViolationLimiter |-> "dropped violation event"]

\* rate.NewLimiter(rate.Every(1*time.Second), 1): one token per second, burst
\* of 1.  Time advances in ticks of 1/TicksPerSecond s and a bucket holds its
\* tokens in ticks, at most Burst tokens.
Burst == 1
FullBucket == Burst * TicksPerSecond
NewLimiter == [tokens |-> FullBucket, suppressed |-> 0]

\* l.limiter.Allow(): a token is available now
Allow(l) == l.tokens >= TicksPerSecond

\* what logger.Log writes: the message, and count and log_type of a
\* suppression record (0 and "" in the record of an event)
LogRecord(msg, count, logType) == [msg |-> msg, count |-> count, log_type |-> logType]

\* logEvent without l.suppressed = 0 after the suppression record
logEvent_keepsSuppressed(l, out, msg) ==
    IF ~Allow(l)
    THEN [l |-> [l EXCEPT !.suppressed = @ + 1], out |-> out]
    ELSE LET taken == [l EXCEPT !.tokens = @ - TicksPerSecond]
             out1 == IF l.suppressed > 0
                     THEN Append(out, LogRecord(suppressionMsg, l.suppressed, msg))
                     ELSE out
         IN  [l |-> taken, out |-> Append(out1, LogRecord(msg, 0, ""))]

\* logRateLimiter.logEvent(ctx, logger, evt, msg, level): the limiter and the
\* logger's output after the call
logEvent(l, out, msg) ==
    IF ~Allow(l)
    THEN [l |-> [l EXCEPT !.suppressed = @ + 1], out |-> out]
    ELSE LET taken == [l EXCEPT !.tokens = @ - TicksPerSecond]
             out1 == IF l.suppressed > 0
                     THEN Append(out, LogRecord(suppressionMsg, l.suppressed, msg))
                     ELSE out
         IN  [l |-> [taken EXCEPT !.suppressed = 0],
              out |-> Append(out1, LogRecord(msg, 0, ""))]

----------------------------------------------------------------------------
(* The violation buffer (internal/violationbuf/buffer.go, described in      *)
(* src/docs/rfc/0006-violation-reporting.md)                                *)

\* the violations the event scraper may record: policy_name, pod_name,
\* container_name, executable_path, action
ViolationKeys ==
    {<<"p", "pod1", "c", "/bin/x", "monitor">>,
     <<"p", "pod1", "c", "/bin/y", "monitor">>,
     <<"p", "pod1", "c", "/bin/x", "protect">>}

\* ViolationInfo: the dedup key and the time of the violation
ViolationInfo(key, timestamp) == [key |-> key, timestamp |-> timestamp]

\* a mutex that never makes a caller wait
CanLock_always(mu) == TRUE

\* b.mu.Lock() returns: the mutex of the buffer is free
CanLock(mu) == mu = ""

\* Record's upsert that stores the record anew on every call
Upsert_overwrite(records, info) ==
    MapPut(records, info.key, [count |-> 1, timestamp |-> info.timestamp])

\* Record(info) under the lock: upsert by dedup key, incrementing the count
\* and updating the timestamp
Upsert(records, info) ==
    IF info.key \in DOMAIN records
    THEN MapPut(records, info.key,
                [count |-> records[info.key].count + 1, timestamp |-> info.timestamp])
    ELSE MapPut(records, info.key, [count |-> 1, timestamp |-> info.timestamp])

\* []ViolationRecord built from a drained map (a set: the order is the map's)
ViolationRecords(records) ==
    {[key |-> k, count |-> records[k].count, timestamp |-> records[k].timestamp] :
        k \in DOMAIN records}

NoInfo == ViolationInfo(<<>>, 0)

\* vbHistory: the number of Record calls made (the clock of the timestamps),
\* the number that returned, the number of Drain calls, and per key the
\* number and last timestamp of the Record calls since the last Drain
NoHistory ==
    [called |-> 0, returned |-> 0, drains |-> 0,
     since |-> [k \in ViolationKeys |-> [n |-> 0, timestamp |-> 0]]]

InitViolationBuffer ==
    /\ vbRecords = EmptyMap
    /\ vbMu = ""
    /\ vbRecorder = [pc |-> "idle", info |-> NoInfo]
    /\ vbScraper = [pc |-> "idle", old |-> EmptyMap]
    /\ vbDrained = <<>>
    /\ vbHistory = NoHistory

----------------------------------------------------------------------------
(* The ring-buffer consumers (src/internal/bpf/events_common.go,            *)
(* src/internal/bpf/logging.go)                                             *)

maxPathLen == 4096

\* what the kernel may write to the process-event ring: whether the sample
\* holds a whole bpfEventHeader, header.Mode, header.PathLen and the number of
\* bytes that follow the header
RingSamples ==
    {[headerOK |-> TRUE, mode |-> 0, pathLen |-> 2, avail |-> 2],
     [headerOK |-> TRUE, mode |-> 1, pathLen |-> maxPathLen, avail |-> maxPathLen],
     [headerOK |-> TRUE, mode |-> 2, pathLen |-> 0, avail |-> 0],
     [headerOK |-> TRUE, mode |-> 1, pathLen |-> maxPathLen + 1, avail |-> maxPathLen + 1],
     [headerOK |-> TRUE, mode |-> 1, pathLen |-> 2, avail |-> 0],
     [headerOK |-> TRUE, mode |-> 1, pathLen |-> 2, avail |-> 1],
     [headerOK |-> FALSE, mode |-> 0, pathLen |-> 0, avail |-> 0]}

\* the record the reader returns for a sample: cgid numbers the records in
\* the order the kernel wrote them
RingRecord(cgid, sample) ==
    [cgid |-> cgid, headerOK |-> sample.headerOK, mode |-> sample.mode,
     pathLen |-> sample.pathLen, avail |-> sample.avail]

\* policymode.FromUint8(mode).String()
ModeString(mode) == CASE mode = 1 -> "monitor" [] mode = 2 -> "protect" [] OTHER -> ""

\* the ProcessEvent built from a record; ExePath is kept by its length
ProcessEvent(rec) ==
    [CgroupID |-> rec.cgid,
     Mode |-> IF rec.mode # 0 THEN ModeString(rec.mode) ELSE "",
     ExePath |-> rec.pathLen]

\* the loop body without the path length test
parseRecord_noLengthTest(rec) ==
    IF ~rec.headerOK
    THEN [send |-> FALSE, log |-> "parsing ringbuf event"]
    ELSE IF rec.pathLen > 0 /\ rec.avail = 0
    THEN [send |-> FALSE, log |-> "reading path bytes"]
    ELSE [send |-> TRUE, log |-> ""]

\* the body of the loop of processRingbufEvents between rd.Read and the send:
\* whether the record is sent, and the error logged when it is skipped.
\* buf.Read fails only when the path is not empty and no byte follows the
\* header
parseRecord(rec) ==
    IF ~rec.headerOK
    THEN [send |-> FALSE, log |-> "parsing ringbuf event"]
    ELSE IF rec.pathLen > maxPathLen
    THEN [send |-> FALSE, log |-> "invalid path length in ringbuf event"]
    ELSE IF rec.pathLen > 0 /\ rec.avail = 0
    THEN [send |-> FALSE, log |-> "reading path bytes"]
    ELSE [send |-> TRUE, log |-> ""]

NoRecord == RingRecord(0, [headerOK |-> FALSE, mode |-> 0, pathLen |-> 0, avail |-> 0])

InitRing ==
    /\ ring = [queue |-> <<>>, written |-> 0, read |-> <<>>, closed |-> FALSE]
    /\ ctxDone = FALSE
    /\ consumer = [pc |-> "read", rec |-> NoRecord, ret |-> "", logs |-> <<>>, readFailed |-> FALSE]
    /\ outChan = <<>>
    /\ delivered = <<>>
    /\ logTask = [pc |-> "read", err |-> "nil", ret |-> "", closer |-> "wait",
                  closed |-> FALSE, reads |-> 0, readFailed |-> FALSE]

----------------------------------------------------------------------------
(* Cgroup path parsing (src/internal/cgroups/cgroup_parse.go).  A string is *)
(* a sequence of tokens: single characters, and the suffixes ".slice" and   *)
(* ".scope" as one token each.                                              *)

Tokens == {"a", "b", "-", "/", ":", ".slice"}
suffix == ".slice"

\* the strings of at most n tokens
Strings(n) == UNION {[1..k -> Tokens] : k \in 0..n}

\* strings.Contains(s, tok) for a one-token tok
Contains(s, tok) == \E i \in 1..Len(s) : s[i] = tok

\* strings.HasSuffix(s, tok) and strings.TrimSuffix(s, tok) for a one-token tok
HasSuffix(s, tok) == Len(s) > 0 /\ s[Len(s)] = tok
TrimSuffix(s, tok) == IF HasSuffix(s, tok) THEN SubSeq(s, 1, Len(s) - 1) ELSE s

\* strings.Split(s, sep): the pieces between the separators, empty ones kept
RECURSIVE Split(_, _)
Split(s, sep) ==
    IF ~Contains(s, sep)
    THEN <<s>>
    ELSE LET i == CHOOSE i \in 1..Len(s) : s[i] = sep /\ \A j \in 1..(i - 1) : s[j] # sep
         IN  <<SubSeq(s, 1, i - 1)>> \o Split(SubSeq(s, i + 1, Len(s)), sep)

\* the result of a function returning (string, error)
PathOk(path) == [err |-> FALSE, path |-> path]
PathFailed == [err |-> TRUE, path |-> <<>>]

\* SystemdExpandSlice without the test for an empty component
SystemdExpandSlice_emptyAllowed(slice) ==
    IF slice = <<suffix>> \/ ~HasSuffix(slice, suffix)
    THEN PathFailed
    ELSE IF Contains(slice, "/")
    THEN PathFailed
    ELSE LET sliceName == TrimSuffix(slice, suffix) IN
         IF sliceName = <<"-">>
         THEN PathOk(<<"/">>)
         ELSE LET b == FoldSeq(LAMBDA acc, component :
                            [path |-> acc.path \o <<"/">> \o acc.prefix \o component \o <<suffix>>,
                             prefix |-> acc.prefix \o component \o <<"-">>],
                            [path |-> <<>>, prefix |-> <<>>],
                            Split(sliceName, "-"))
              IN  PathOk(b.path)

\* SystemdExpandSlice(slice): pathBuilder and prefixBuilder grow by one
\* component per round; an empty component returns the error
SystemdExpandSlice(slice) ==
    IF slice = <<suffix>> \/ ~HasSuffix(slice, suffix)
    THEN PathFailed
    ELSE IF Contains(slice, "/")
    THEN PathFailed
    ELSE LET sliceName == TrimSuffix(slice, suffix) IN
         IF sliceName = <<"-">>
         THEN PathOk(<<"/">>)
         ELSE LET b == FoldSeq(LAMBDA acc, component :
                            IF acc.err \/ component = <<>>
                            THEN [acc EXCEPT !.err = TRUE]
                            ELSE [err |-> FALSE,
                                  path |-> acc.path \o <<"/">> \o acc.prefix \o component \o <<suffix>>,
                                  prefix |-> acc.prefix \o component \o <<"-">>],
                            [err |-> FALSE, path |-> <<>>, prefix |-> <<>>],
                            Split(sliceName, "-"))
              IN  IF b.err THEN PathFailed ELSE PathOk(b.path)

\* filepath.Clean on a path without "." and ".." elements: repeated
\* separators collapse and a trailing separator goes, except for the root
RECURSIVE Clean(_)
Clean(path) ==
    IF \E i \in 1..(Len(path) - 1) : path[i] = "/" /\ path[i + 1] = "/"
    THEN LET i == CHOOSE i \in 1..(Len(path) - 1) : path[i] = "/" /\ path[i + 1] = "/"
         IN  Clean(SubSeq(path, 1, i) \o SubSeq(path, i + 2, Len(path)))
    ELSE IF Len(path) > 1 /\ path[Len(path)] = "/"
    THEN SubSeq(path, 1, Len(path) - 1)
    ELSE path

\* filepath.Join(dir, elem) of two non-empty elements
Join(dir, elem) == Clean(dir \o <<"/">> \o elem)

\* ParseCgroupsPath that takes the container id as it is
ParseCgroupsPath_noScope(cgroupPath) ==
    IF Contains(cgroupPath, "/")
    THEN PathOk(cgroupPath)
    ELSE LET parts == Split(cgroupPath, ":") IN
         IF Len(parts) = 3
         THEN LET slice == SystemdExpandSlice(parts[1]) IN
              IF slice.err THEN PathFailed ELSE PathOk(Join(slice.path, parts[3]))
         ELSE PathFailed

\* ParseCgroupsPath(cgroupPath)
ParseCgroupsPath(cgroupPath) ==
    IF Contains(cgroupPath, "/")
    THEN PathOk(cgroupPath)
    ELSE LET parts == Split(cgroupPath, ":") IN
         IF Len(parts) = 3
         THEN LET slice == SystemdExpandSlice(parts[1])
                  containerRuntimeName == parts[2]
                  containerID == IF ~HasSuffix(parts[3], suffix)
                                 THEN containerRuntimeName \o <<"-">> \o parts[3] \o <<".scope">>
                                 ELSE parts[3]
              IN  IF slice.err THEN PathFailed ELSE PathOk(Join(slice.path, containerID))
         ELSE PathFailed

----------------------------------------------------------------------------
(* Cgroup v1 controller selection (src/unnamed/part_005).  The file is the  *)
(* sequence of its lines; a controller line is kept by its first field and  *)
(* a line without fields is "".                                             *)

CgroupSubsysCount == 14

HeaderLine == "#subsys_name"
interestingControllers == <<"memory", "pids", "cpu">>

\* the result of findInterestingControllerV1: (name, index, error)
Controller(name, idx) == [name |-> name, idx |-> idx, err |-> FALSE]
NoController == [name |-> "", idx |-> 0, err |-> TRUE]

\* the position of the first line with the given name, 0 if there is none
IndexOfName(names, name) ==
    IF \E i \in 1..Len(names) : names[i] = name
    THEN CHOOSE i \in 1..Len(names) : names[i] = name /\ \A j \in 1..(i - 1) : names[j] # name
    ELSE 0

\* the names the scanning loop collects: it stops after CgroupSubsysCount
\* names and fails on a line without fields
ScanControllers(body, limit) ==
    FoldSeq(LAMBDA acc, line :
                IF acc.stop
                THEN acc
                ELSE IF line = ""
                THEN [acc EXCEPT !.stop = TRUE, !.err = TRUE]
                ELSE [names |-> Append(acc.names, line),
                      stop |-> Len(acc.names) + 1 >= limit,
                      err |-> FALSE],
            [names |-> <<>>, stop |-> FALSE, err |-> FALSE],
            body)

\* the search through memory, pids, cpu in this order
SearchInteresting(names) ==
    LET found == FoldSeq(LAMBDA acc, c :
                            IF acc.idx = 0 /\ IndexOfName(names, c) # 0
                            THEN [name |-> c, idx |-> IndexOfName(names, c)]
                            ELSE acc,
                         [name |-> "", idx |-> 0],
                         interestingControllers)
    IN  IF found.idx = 0 THEN NoController ELSE Controller(found.name, found.idx - 1)

\* findInterestingControllerV1 that parses the whole file
findInterestingControllerV1_wholeFile(lines) ==
    LET body == IF lines = <<>> THEN <<>> ELSE Tail(lines)
        scan == ScanControllers(body, Len(body) + 1)
    IN  IF scan.err THEN NoController ELSE SearchInteresting(scan.names)

\* findInterestingControllerV1(path) on the lines of the file at path: the
\* first scanner.Scan() drops the header
findInterestingControllerV1(lines) ==
    LET body == IF lines = <<>> THEN <<>> ELSE Tail(lines)
        scan == ScanControllers(body, CgroupSubsysCount)
    IN  IF scan.err THEN NoController ELSE SearchInteresting(scan.names)

----------------------------------------------------------------------------
(* Path bucketing of the kernel map facade (internal/bpf, exercised by      *)
(* src/internal/bpf/policy_values_test.go).  A path is kept by its length.  *)

\* the bucket sizes stringMapSize0 .. stringMapSize10: six at strides of
\* stringMapsKeyIncSize, then powers of two up to MaxStringMapsSize
stringMapsKeyIncSize == 24
stringMapSizes ==
    <<stringMapsKeyIncSize, 2 * stringMapsKeyIncSize, 3 * stringMapsKeyIncSize,
      4 * stringMapsKeyIncSize, 5 * stringMapsKeyIncSize, 6 * stringMapsKeyIncSize,
      256, 512, 1024, 2048, 4096>>
stringMapSize7 == stringMapSizes[8]
MaxStringMapsSize == stringMapSizes[11]

\* kernels.KernelStringToNumeric on a version <<major, minor, patch>>
KernelStringToNumeric(v) == v[1] * 65536 + v[2] * 256 + v[3]

\* a padding that takes the bucket after the smallest that fits
stringPaddedLen_nextBucket(s) ==
    LET fits == {i \in 1..Len(stringMapSizes) : s <= stringMapSizes[i]}
        i == CHOOSE i \in fits : \A j \in fits : i <= j
    IN  IF fits = {}
        THEN stringMapSizes[Len(stringMapSizes)]
        ELSE stringMapSizes[IF i < Len(stringMapSizes) THEN i + 1 ELSE i]

\* stringPaddedLen(s): the first bucket, in increasing order, that holds s
\* bytes; the largest bucket when none does
stringPaddedLen(s) ==
    LET fits == {i \in 1..Len(stringMapSizes) : s <= stringMapSizes[i]}
    IN  IF fits = {}
        THEN stringMapSizes[Len(stringMapSizes)]
        ELSE stringMapSizes[CHOOSE i \in fits : \A j \in fits : i <= j]

\* the largest bucket the kernel version supports
maxBucket(kernelVer) ==
    IF kernelVer < KernelStringToNumeric(<<5, 11, 0>>) THEN stringMapSize7 ELSE MaxStringMapsSize

\* argStringSelectorValue(path, false, kernelVer) for a path of len bytes:
\* the padded size of the key, or the error for a path too long
argStringSelectorValue(len, kernelVer) ==
    IF len > maxBucket(kernelVer)
    THEN [err |-> TRUE, size |-> 0]
    ELSE [err |-> FALSE, size |-> stringPaddedLen(len)]

----------------------------------------------------------------------------
(* The NRI reconnect loop (internal/nri Handler.Start; the older            *)
(* Resolver.StartNriPluginWithRetry runs the same loop in a goroutine)      *)

\* ReconnectWaitTime (NRIReconnectWaitTime in internal/resolver), in seconds
ReconnectWaitTime == 1

\* how one call of startNRIPlugin ends: "failed" when stub.New or the
\* connection to the runtime fails, "lost" when the plugin was connected and
\* stub.Run returned (the transport was lost or the context was cancelled)
AttemptOutcomes == {"failed", "lost"}

\* the loop at its first select, with the attempts made and the waits slept
InitNri ==
    nri = [pc |-> "select", ctxDone |-> FALSE, attempts |-> <<>>, waits |-> <<>>]

----------------------------------------------------------------------------
(* Cgroup detection (internal/cgroups GetCgroupInfo)                        *)

\* the goroutines calling GetCgroupInfo
Callers == {"g1", "g2", "g3"}

\* what getCgroupInfo returns; it depends on the mounts at the time it runs
DetectionResults ==
    {[info |-> "cgroupv2", err |-> ""],
     [info |-> "cgroupv1", err |-> ""],
     [info |-> "nil", err |-> "unsupported cgroup filesystem type"],
     [info |-> "nil", err |-> "cannot get mount point type"]}

\* sync.Once.doSlow without the second test of done: f runs for every caller
\* that found done unset on the fast path
doSlow_noRecheck(done) == TRUE

\* sync.Once.doSlow, holding the mutex: f runs when done is still unset
doSlow(done) == ~done

\* cgroupInfoDetectionOnce, cgroupInfo and errCgroupInfo at their zero values,
\* no caller inside GetCgroupInfo
InitDetect ==
    detect = [done |-> FALSE, m |-> "", cgroupInfo |-> "nil", errCgroupInfo |-> "",
              runs |-> 0, calls |-> 0, pc |-> [g \in Callers |-> "idle"],
              returned |-> <<>>]

----------------------------------------------------------------------------
(* The resolver mutex r.mu and the goroutines calling resolver methods      *)

\* the goroutines: the informer's handlers, the status reporter, the event
\* enrichment
Threads == {"t1", "t2", "t3"}

\* r.mu.Lock() never waiting
TryLock_always(mu) == TRUE

\* r.mu.Lock() returns only when no goroutine holds the mutex
TryLock(mu) == mu = ""

NoRun == [calls |-> <<>>, wp |-> <<>>, next |-> 0]
IdleThread == [pc |-> "idle", run |-> NoRun, j |-> 0, snap |-> <<>>, pod |-> ""]

\* r.mu unlocked, every goroutine outside the resolver
InitThreads ==
    mx = [mu |-> "", th |-> [t \in Threads |-> IdleThread], begun |-> 0,
          statuses |-> <<>>, kubeInfo |-> ""]

\* what one successful kernel-map call does to the three maps
ApplyCall(k, c) ==
    LET ids == {c.arg[i] : i \in DOMAIN c.arg} IN
    CASE c.fn = "policy_values" ->
            [k EXCEPT !.vals = IF c.op = "RemoveValuesFromPolicy" THEN MapDel(@, c.id)
                               ELSE MapPut(@, c.id, c.arg)]
      [] c.fn = "policy_mode" ->
            [k EXCEPT !.mode = IF c.op = "DeleteMode" THEN MapDel(@, c.id)
                               ELSE MapPut(@, c.id, c.arg)]
      [] c.fn = "cgroup_to_policy" /\ c.op = "AddPolicyToCgroups" ->
            [k EXCEPT !.cg = [x \in DOMAIN @ \cup ids |-> IF x \in ids THEN c.id ELSE @[x]]]
      [] c.fn = "cgroup_to_policy" /\ c.op = "RemoveCgroups" ->
            [k EXCEPT !.cg = [x \in DOMAIN @ \ ids |-> @[x]]]
      [] c.fn = "cgroup_to_policy" /\ c.op = "RemovePolicy" ->
            [k EXCEPT !.cg = [x \in {y \in DOMAIN @ : @[y] # c.id} |-> @[x]]]

----------------------------------------------------------------------------
(* The state machine *)

NoKey == <<"", "">>
NoLast == [op |-> "init", key |-> NoKey, pod |-> "", cgID |-> 0, err |-> NoError, n |-> 0]

NoCall == [fn |-> "", arg |-> <<>>, res |-> <<>>]

\* the components beside the resolver's own state
InitOthers ==
    /\ rateLimiters = [x \in Limiters |-> NewLimiter]
    /\ logOutput = <<>>
    /\ logCalls = [x \in Limiters |-> 0]
    /\ InitViolationBuffer
    /\ InitRing
    /\ InitNri
    /\ InitDetect
    /\ InitThreads

InitComponents ==
    /\ wpState = EmptyMap
    /\ nextPolicyID = 1
    /\ podCache = EmptyMap
    /\ cgroupIDToPodID = EmptyMap
    /\ policyValues = EmptyMap
    /\ policyMode = EmptyMap
    /\ cgroupToPolicy = EmptyMap
    /\ nextCgroupID = 1
    /\ lastSpec = EmptyMap
    /\ opCount = 0
    /\ failures = 0
    /\ last = NoLast
    /\ InitOthers

InitResolver == InitComponents /\ call = NoCall

Init == impl \in Impls /\ InitResolver

\* the handler returns: its state becomes the resolver's and the kernel's; the
\* actions run a handler only while opCount < MaxOps.  last keeps what the
\* caller of the handler saw: the error returned and the number n of kernel-map
\* calls the handler issued
Commit(m, op, key, pod, cgID) ==
    /\ m.next <= MaxPolicyID + 1
    /\ opCount' = opCount + 1
    /\ failures' = IF m.failAt = 0 THEN failures ELSE failures + 1
    /\ impl' = impl
    /\ wpState' = m.wp
    /\ nextPolicyID' = m.next
    /\ podCache' = m.pods
    /\ cgroupIDToPodID' = m.cg2pod
    /\ policyValues' = m.vals
    /\ policyMode' = m.mode
    /\ cgroupToPolicy' = m.cg
    /\ last' = [op |-> op, key |-> key, pod |-> pod, cgID |-> cgID, err |-> m.err, n |-> m.n]
    /\ UNCHANGED exceptResolver

RunAdd(m, wp) ==
    CASE impl = "part_002" -> handleWPAdd_part_002(m, wp)
      [] impl = "policy.go" -> handleWPAdd_policy_go(m, wp)
      [] impl = "part_001" -> handleWPAdd_part_001(m, wp)

\* the informer's oldObj is the object it delivered last for the key
OldWp(wp) ==
    IF NamespacedName(wp) \in DOMAIN lastSpec THEN lastSpec[NamespacedName(wp)] ELSE wp

RunUpdate(m, wp) ==
    CASE impl = "part_002" -> handleWPUpdate_part_002(m, OldWp(wp), wp)
      [] impl = "policy.go" -> handleWPUpdate_policy_go(m, wp)
      [] impl = "part_001" -> handleWPUpdate_part_001(m, wp)

\* the kernel-map calls of a run that may fail: none, or any one of the n it
\* issues while the behaviour has failures left
FailPoints(n) == IF failures < MaxFailures THEN 0..n ELSE {0}

\* PolicyEventHandlers().AddFunc; lastSpec keeps the object of the last add or
\* update the resolver acted on
HandleWPAdd ==
    /\ opCount < MaxOps
    /\ \E wp \in WorkloadPolicies, nameOrd \in Orders(ContainerNames),
          cgOrd \in Orders(LiveCgroups(podCache)) :
        \E failAt \in FailPoints(RunAdd(Machine(nameOrd, cgOrd, 0), wp).n) :
            /\ Commit(RunAdd(Machine(nameOrd, cgOrd, failAt), wp), "add", NamespacedName(wp), "", 0)
            /\ lastSpec' = IF NamespacedName(wp) \in DOMAIN wpState THEN lastSpec
                           ELSE MapPut(lastSpec, NamespacedName(wp), wp)
            /\ UNCHANGED nextCgroupID

\* PolicyEventHandlers().UpdateFunc
HandleWPUpdate ==
    /\ opCount < MaxOps
    /\ \E wp \in WorkloadPolicies, nameOrd \in Orders(ContainerNames),
          cgOrd \in Orders(LiveCgroups(podCache)) :
        \E failAt \in FailPoints(RunUpdate(Machine(nameOrd, cgOrd, 0), wp).n) :
            /\ Commit(RunUpdate(Machine(nameOrd, cgOrd, failAt), wp), "update", NamespacedName(wp), "", 0)
            /\ lastSpec' = IF NamespacedName(wp) \in DOMAIN wpState
                           THEN MapPut(lastSpec, NamespacedName(wp), wp)
                           ELSE lastSpec
            /\ UNCHANGED nextCgroupID

\* PolicyEventHandlers().DeleteFunc: the handler reads the object's name only
HandleWPDelete ==
    /\ opCount < MaxOps
    /\ \E key \in WpKeys, nameOrd \in Orders(ContainerNames) :
        LET wp == [namespace |-> key[1], name |-> key[2], mode |-> "monitor", rules |-> EmptyMap] IN
        \E failAt \in FailPoints(handleWPDelete(Machine(nameOrd, <<>>, 0), wp).n) :
            /\ Commit(handleWPDelete(Machine(nameOrd, <<>>, failAt), wp), "delete", key, "", 0)
            /\ lastSpec' = IF key \in DOMAIN wpState THEN MapDel(lastSpec, key) ELSE lastSpec
            /\ UNCHANGED nextCgroupID

\* plugin.StartContainer: a container of a pod starts in a new cgroup
StartContainer ==
    \E pod \in PodIDs, name \in ContainerNames :
        /\ name \in PodInfo[pod].containers
        /\ nextCgroupID <= MaxCgroupID
        /\ opCount < MaxOps
        /\ \E cgOrd \in Orders(LiveCgroups(podCache) \cup {nextCgroupID}) :
            \E failAt \in FailPoints(AddPodFromNRI(Machine(<<>>, cgOrd, 0), pod, name, nextCgroupID).n) :
                Commit(AddPodFromNRI(Machine(<<>>, cgOrd, failAt), pod, name, nextCgroupID),
                       "start", NoKey, pod, nextCgroupID)
        /\ nextCgroupID' = nextCgroupID + 1
        /\ UNCHANGED lastSpec

\* a container exits: only the pod cache changes
ContainerExit ==
    \E cgID \in LiveCgroups(podCache) :
        /\ opCount < MaxOps
        /\ Commit(RemoveContainer(Machine(<<>>, <<>>, 0), cgID), "exit", NoKey,
                  cgroupIDToPodID[cgID], cgID)
        /\ UNCHANGED <<nextCgroupID, lastSpec>>

\* the kernel collects the cgroup_to_policy entry of a removed cgroup; this is
\* no resolver operation, so it is not counted in opCount
CgroupRemoved ==
    \E cgID \in DOMAIN cgroupToPolicy \ LiveCgroups(podCache) :
        /\ cgroupToPolicy' = MapDel(cgroupToPolicy, cgID)
        /\ last' = [NoLast EXCEPT !.op = "cgroup-removed", !.cgID = cgID]
        /\ UNCHANGED <<impl, wpState, nextPolicyID, podCache, cgroupIDToPodID,
                       policyValues, policyMode, nextCgroupID, lastSpec, opCount, failures>>
        /\ UNCHANGED exceptResolver

Next ==
    \/ HandleWPAdd
    \/ HandleWPUpdate
    \/ HandleWPDelete
    \/ StartContainer
    \/ ContainerExit
    \/ CgroupRemoved

Spec == Init /\ [][Next]_vars

\* one revision at a time
InitPart002 == impl = "part_002" /\ InitResolver
InitPolicyGo == impl = "policy.go" /\ InitResolver
InitPart001 == impl = "part_001" /\ InitResolver
SpecPart002 == InitPart002 /\ [][Next]_vars
SpecPolicyGo == InitPolicyGo /\ [][Next]_vars
SpecPart001 == InitPart001 /\ [][Next]_vars

\* the two revisions built on syncWorkloadPolicy(FromSpec)
InitSync == impl \in {"policy.go", "part_001"} /\ InitResolver
SpecSync == InitSync /\ [][Next]_vars

----------------------------------------------------------------------------
(* The logger: loggerStart reads one log event at a time from the ring and   *)
(* logEventMsg hands the rate-limited codes to their limiter.               *)

\* logEventMsg for LOG_DROP_EXEC_EVENT or LOG_DROP_VIOLATION
LogEventMsg ==
    \E x \in Limiters :
        /\ logCalls[x] < MaxLogCalls
        /\ LET r == logEvent(rateLimiters[x], logOutput, LimiterMsg[x]) IN
            /\ rateLimiters' = [rateLimiters EXCEPT ![x] = r.l]
            /\ logOutput' = r.out
        /\ logCalls' = [logCalls EXCEPT ![x] = @ + 1]
        /\ UNCHANGED exceptLogger

\* 1/TicksPerSecond s passes: every bucket that is not full gains one tick
Tick ==
    /\ \E x \in Limiters : rateLimiters[x].tokens < FullBucket
    /\ rateLimiters' = [x \in Limiters |->
            [rateLimiters[x] EXCEPT !.tokens = IF @ < FullBucket THEN @ + 1 ELSE @]]
    /\ UNCHANGED <<logOutput, logCalls>>
    /\ UNCHANGED exceptLogger

NextLogger ==
    \/ LogEventMsg
    \/ Tick

SpecLogger == InitPart001 /\ [][NextLogger]_vars

----------------------------------------------------------------------------
(* The violation buffer: the event scraper calls Record, the gRPC server    *)
(* calls Drain; each statement under the mutex is a step.                   *)

\* Record(info): b.mu.Lock()
RecordLock ==
    \E key \in ViolationKeys :
        /\ vbHistory.called < MaxRecords
        /\ vbRecorder.pc = "idle"
        /\ CanLock(vbMu)
        /\ vbMu' = "Record"
        /\ vbRecorder' = [pc |-> "locked",
                          info |-> ViolationInfo(key, vbHistory.called + 1)]
        /\ vbHistory' = [vbHistory EXCEPT !.called = @ + 1]
        /\ UNCHANGED <<vbRecords, vbScraper, vbDrained>>
        /\ UNCHANGED exceptBuffer

\* Record(info): the upsert, b.mu.Unlock() and return
RecordUpsert ==
    /\ vbRecorder.pc = "locked"
    /\ vbRecords' = Upsert(vbRecords, vbRecorder.info)
    /\ vbMu' = ""
    /\ vbRecorder' = [pc |-> "idle", info |-> NoInfo]
    /\ vbHistory' = [vbHistory EXCEPT
            !.returned = @ + 1,
            !.since[vbRecorder.info.key] =
                [n |-> @.n + 1, timestamp |-> vbRecorder.info.timestamp]]
    /\ UNCHANGED <<vbScraper, vbDrained>>
    /\ UNCHANGED exceptBuffer

\* Drain(): b.mu.Lock()
DrainLock ==
    /\ vbHistory.drains < MaxDrains
    /\ vbScraper.pc = "idle"
    /\ CanLock(vbMu)
    /\ vbMu' = "Drain"
    /\ vbScraper' = [vbScraper EXCEPT !.pc = "locked"]
    /\ vbHistory' = [vbHistory EXCEPT !.drains = @ + 1]
    /\ UNCHANGED <<vbRecords, vbRecorder, vbDrained>>
    /\ UNCHANGED exceptBuffer

\* Drain(): old := b.records
DrainTake ==
    /\ vbScraper.pc = "locked"
    /\ vbScraper' = [pc |-> "taken", old |-> vbRecords]
    /\ UNCHANGED <<vbRecords, vbMu, vbRecorder, vbDrained, vbHistory>>
    /\ UNCHANGED exceptBuffer

\* Drain(): b.records = a new map, b.mu.Unlock() and return of the records
DrainSwap ==
    /\ vbScraper.pc = "taken"
    /\ vbRecords' = EmptyMap
    /\ vbMu' = ""
    /\ vbDrained' = Append(vbDrained, ViolationRecords(vbScraper.old))
    /\ vbScraper' = [pc |-> "idle", old |-> EmptyMap]
    /\ vbHistory' = [vbHistory EXCEPT !.since = NoHistory.since]
    /\ UNCHANGED vbRecorder
    /\ UNCHANGED exceptBuffer

NextBuffer ==
    \/ RecordLock
    \/ RecordUpsert
    \/ DrainLock
    \/ DrainTake
    \/ DrainSwap

SpecBuffer == InitPart001 /\ [][NextBuffer]_vars

----------------------------------------------------------------------------
(* The ring-buffer consumers: processRingbufEvents with the goroutine that  *)
(* closes its reader, the subscriber of its channel, and loggerStart with   *)
(* its closing goroutine.  Each blocking call and each access to a variable *)
(* shared between goroutines is a step.                                     *)

\* the kernel program submits a sample to the process-event ring
KernelWrite ==
    \E sample \in RingSamples :
        /\ ring.written < MaxRingRecords
        /\ ring' = [ring EXCEPT !.written = @ + 1,
                                !.queue = Append(@, RingRecord(ring.written + 1, sample))]
        /\ UNCHANGED <<ctxDone, consumer, outChan, delivered, logTask>>
        /\ UNCHANGED exceptRing

\* the context is cancelled
Cancel ==
    /\ ~ctxDone
    /\ ctxDone' = TRUE
    /\ UNCHANGED <<ring, consumer, outChan, delivered, logTask>>
    /\ UNCHANGED exceptRing

\* go func() { <-ctx.Done(); rd.Close() }() of processRingbufEvents
CloseReader ==
    /\ ctxDone
    /\ ~ring.closed
    /\ ring' = [ring EXCEPT !.closed = TRUE]
    /\ UNCHANGED <<ctxDone, consumer, outChan, delivered, logTask>>
    /\ UNCHANGED exceptRing

\* rd.Read() returns a record: the loop body up to the send or the continue
ConsumerRead ==
    /\ consumer.pc = "read"
    /\ ~ring.closed
    /\ ring.queue # <<>>
    /\ LET rec == Head(ring.queue)
           p == parseRecord(rec)
       IN  /\ ring' = [ring EXCEPT !.queue = Tail(@), !.read = Append(@, rec)]
           /\ consumer' = IF p.send
                          THEN [consumer EXCEPT !.pc = "send", !.rec = rec]
                          ELSE [consumer EXCEPT !.logs = Append(@, p.log)]
    /\ UNCHANGED <<ctxDone, outChan, delivered, logTask>>
    /\ UNCHANGED exceptRing

\* rd.Read() returns ringbuf.ErrClosed: return nil
ConsumerReadClosed ==
    /\ consumer.pc = "read"
    /\ ring.closed
    /\ consumer' = [consumer EXCEPT !.pc = "returned", !.ret = "nil"]
    /\ UNCHANGED <<ring, ctxDone, outChan, delivered, logTask>>
    /\ UNCHANGED exceptRing

\* rd.Read() returns another error: return "reading from reader: ..."
ConsumerReadFails ==
    /\ consumer.pc = "read"
    /\ ~ring.closed
    /\ consumer' = [consumer EXCEPT !.pc = "returned", !.ret = "error", !.readFailed = TRUE]
    /\ UNCHANGED <<ring, ctxDone, outChan, delivered, logTask>>
    /\ UNCHANGED exceptRing

\* out <- ProcessEvent{...}: proceeds when the channel has room
ConsumerSend ==
    /\ consumer.pc = "send"
    /\ Len(outChan) < ChanCap
    /\ outChan' = Append(outChan, ProcessEvent(consumer.rec))
    /\ consumer' = [consumer EXCEPT !.pc = "read", !.rec = NoRecord]
    /\ UNCHANGED <<ring, ctxDone, delivered, logTask>>
    /\ UNCHANGED exceptRing

\* the steps of the goroutine running processRingbufEvents
ConsumerStep ==
    \/ ConsumerRead
    \/ ConsumerReadClosed
    \/ ConsumerSend

\* the subscriber receives from GetLearningChannel() / GetMonitoringChannel()
Receive ==
    /\ outChan # <<>>
    /\ delivered' = Append(delivered, Head(outChan))
    /\ outChan' = Tail(outChan)
    /\ UNCHANGED <<ring, ctxDone, consumer, logTask>>
    /\ UNCHANGED exceptRing

\* loggerStart's go func(): <-ctx.Done() and the call rd.Close()
LoggerClose ==
    /\ logTask.closer = "wait"
    /\ ctxDone
    /\ logTask' = [logTask EXCEPT !.closer = "assign", !.closed = TRUE]
    /\ UNCHANGED <<ring, ctxDone, consumer, outChan, delivered>>
    /\ UNCHANGED exceptRing

\* loggerStart's go func(): err = <result of rd.Close()>, a write to the err
\* of loggerStart that is not synchronised with the loop
LoggerCloseAssign ==
    /\ logTask.closer = "assign"
    /\ logTask' = [logTask EXCEPT !.closer = "done", !.err = "nil"]
    /\ UNCHANGED <<ring, ctxDone, consumer, outChan, delivered>>
    /\ UNCHANGED exceptRing

\* record, err = rd.Read() returns a log event
LoggerRead ==
    /\ logTask.pc = "read"
    /\ ~logTask.closed
    /\ logTask.reads < MaxLogReads
    /\ logTask' = [logTask EXCEPT !.pc = "test", !.err = "nil", !.reads = @ + 1]
    /\ UNCHANGED <<ring, ctxDone, consumer, outChan, delivered>>
    /\ UNCHANGED exceptRing

\* record, err = rd.Read() returns ringbuf.ErrClosed
LoggerReadClosed ==
    /\ logTask.pc = "read"
    /\ logTask.closed
    /\ logTask' = [logTask EXCEPT !.pc = "test", !.err = "ErrClosed"]
    /\ UNCHANGED <<ring, ctxDone, consumer, outChan, delivered>>
    /\ UNCHANGED exceptRing

\* record, err = rd.Read() returns another error
LoggerReadFails ==
    /\ logTask.pc = "read"
    /\ ~logTask.closed
    /\ ~logTask.readFailed
    /\ logTask' = [logTask EXCEPT !.pc = "test", !.err = "EIO", !.readFailed = TRUE]
    /\ UNCHANGED <<ring, ctxDone, consumer, outChan, delivered>>
    /\ UNCHANGED exceptRing

\* if err != nil
LoggerTestErr ==
    /\ logTask.pc = "test"
    /\ logTask' = [logTask EXCEPT !.pc = IF logTask.err # "nil" THEN "is" ELSE "handle"]
    /\ UNCHANGED <<ring, ctxDone, consumer, outChan, delivered>>
    /\ UNCHANGED exceptRing

\* if errors.Is(err, ringbuf.ErrClosed) { return nil }; return fmt.Errorf(...)
LoggerIsClosed ==
    /\ logTask.pc = "is"
    /\ logTask' = [logTask EXCEPT !.pc = "returned",
                                  !.ret = IF logTask.err = "ErrClosed" THEN "nil" ELSE "error"]
    /\ UNCHANGED <<ring, ctxDone, consumer, outChan, delivered>>
    /\ UNCHANGED exceptRing

\* binary.Read and m.logHandler, or the continue after a parse error
LoggerHandle ==
    /\ logTask.pc = "handle"
    /\ logTask' = [logTask EXCEPT !.pc = "read"]
    /\ UNCHANGED <<ring, ctxDone, consumer, outChan, delivered>>
    /\ UNCHANGED exceptRing

\* the steps of the goroutines of loggerStart
LoggerStep ==
    \/ LoggerClose
    \/ LoggerCloseAssign
    \/ LoggerRead
    \/ LoggerReadClosed
    \/ LoggerTestErr
    \/ LoggerIsClosed
    \/ LoggerHandle

\* the process-event ring, its consumer and its subscriber
NextConsumer ==
    \/ KernelWrite
    \/ Cancel
    \/ CloseReader
    \/ ConsumerStep
    \/ ConsumerReadFails
    \/ Receive

SpecRing == InitPart001 /\ [][NextConsumer]_vars

\* both consumers under one context
NextRing ==
    \/ NextConsumer
    \/ LoggerStep
    \/ LoggerReadFails

\* the Go scheduler runs every goroutine that can take a step; the subscriber
\* is under no obligation to receive, and read errors need not happen
SpecRingLive ==
    /\ InitPart001
    /\ [][NextRing]_vars
    /\ WF_vars(ConsumerStep)
    /\ WF_vars(CloseReader)
    /\ WF_vars(LoggerStep)

----------------------------------------------------------------------------
(* Calls of the cgroup path functions on every string of at most MaxTokens  *)
(* tokens                                                                   *)

InitCgroupParse ==
    /\ impl = "part_001"
    /\ InitComponents
    /\ call \in {[fn |-> "", arg |-> s, res |-> <<>>] : s \in Strings(MaxTokens)}

CallParseCgroupsPath ==
    /\ call.fn = ""
    /\ call' = [call EXCEPT !.fn = "ParseCgroupsPath", !.res = ParseCgroupsPath(call.arg)]
    /\ UNCHANGED exceptCall

CallSystemdExpandSlice ==
    /\ call.fn = ""
    /\ call' = [call EXCEPT !.fn = "SystemdExpandSlice", !.res = SystemdExpandSlice(call.arg)]
    /\ UNCHANGED exceptCall

NextCgroupParse ==
    \/ CallParseCgroupsPath
    \/ CallSystemdExpandSlice

SpecCgroupParse == InitCgroupParse /\ [][NextCgroupParse]_vars

----------------------------------------------------------------------------
(* findInterestingControllerV1 on files of at most MaxLines controller      *)
(* lines of which at most MaxOtherLines are not "cpuset"                    *)

OtherLines == {"memory", "pids", "cpu", ""}

\* bodies of n lines: "cpuset" everywhere but at the positions of P
BodiesWith(n, P) ==
    {[i \in 1..n |-> IF i \in P THEN f[i] ELSE "cpuset"] : f \in [P -> OtherLines]}

ProcCgroupsFiles ==
    {<<>>} \cup
    {<<HeaderLine>> \o body :
        body \in UNION {BodiesWith(n, P) :
                            n \in 0..MaxLines,
                            P \in {Q \in SUBSET (1..MaxLines) : Cardinality(Q) <= MaxOtherLines}}}

InitController ==
    /\ impl = "part_001"
    /\ InitComponents
    /\ call \in {[fn |-> "", arg |-> lines, res |-> <<>>] : lines \in ProcCgroupsFiles}

CallFindInterestingControllerV1 ==
    /\ call.fn = ""
    /\ call' = [call EXCEPT !.fn = "findInterestingControllerV1",
                            !.res = findInterestingControllerV1(call.arg)]
    /\ UNCHANGED exceptCall

SpecController == InitController /\ [][CallFindInterestingControllerV1]_vars

----------------------------------------------------------------------------
(* stringPaddedLen and argStringSelectorValue on every length up to         *)
(* MaxExtraLen bytes past the largest bucket, and on ten times the largest  *)
(* bucket                                                                   *)

PathLengths == 0..(MaxStringMapsSize + MaxExtraLen) \cup {10 * MaxStringMapsSize}
KernelVersions == {<<4, 19, 0>>, <<5, 9, 0>>, <<5, 10, 255>>, <<5, 11, 0>>, <<6, 1, 0>>}

InitBuckets ==
    /\ impl = "part_001"
    /\ InitComponents
    /\ call \in {[fn |-> "", arg |-> [len |-> n, kernel |-> v], res |-> <<>>] :
                    n \in PathLengths, v \in KernelVersions}

CallStringPaddedLen ==
    /\ call.fn = ""
    /\ call' = [call EXCEPT !.fn = "stringPaddedLen", !.res = stringPaddedLen(call.arg.len)]
    /\ UNCHANGED exceptCall

CallArgStringSelectorValue ==
    /\ call.fn = ""
    /\ call' = [call EXCEPT
            !.fn = "argStringSelectorValue",
            !.res = argStringSelectorValue(call.arg.len, KernelStringToNumeric(call.arg.kernel))]
    /\ UNCHANGED exceptCall

NextBuckets ==
    \/ CallStringPaddedLen
    \/ CallArgStringSelectorValue

SpecBuckets == InitBuckets /\ [][NextBuckets]_vars

----------------------------------------------------------------------------
(* Actions of the NRI reconnect loop *)

\* the context given to Start is cancelled
NriCancel ==
    /\ ~nri.ctxDone
    /\ nri' = [nri EXCEPT !.ctxDone = TRUE]
    /\ UNCHANGED exceptNri

\* the select at the head of the loop: return nil when ctx.Done() is closed,
\* otherwise fall through to startNRIPlugin
NriSelect ==
    /\ nri.pc = "select"
    /\ nri.ctxDone \/ Len(nri.attempts) < MaxAttempts
    /\ nri' = [nri EXCEPT !.pc = IF nri.ctxDone THEN "returned" ELSE "run"]
    /\ UNCHANGED exceptNri

\* startNRIPlugin returns; its error is logged and the loop goes on to sleep
NriStartPlugin ==
    /\ nri.pc = "run"
    /\ \E o \in AttemptOutcomes :
           nri' = [nri EXCEPT !.pc = "sleep", !.attempts = Append(@, o)]
    /\ UNCHANGED exceptNri

\* time.Sleep(ReconnectWaitTime), then back to the select
NriSleep ==
    /\ nri.pc = "sleep"
    /\ nri' = [nri EXCEPT !.pc = "select", !.waits = Append(@, ReconnectWaitTime)]
    /\ UNCHANGED exceptNri

NextNri ==
    \/ NriCancel
    \/ NriSelect
    \/ NriStartPlugin
    \/ NriSleep

SpecNri == InitPart001 /\ [][NextNri]_vars

----------------------------------------------------------------------------
(* Actions of cgroup detection: GetCgroupInfo called by several goroutines *)

\* a goroutine calls GetCgroupInfo and enters cgroupInfoDetectionOnce.Do
DetectCall(g) ==
    /\ detect.calls < MaxDetectCalls
    /\ detect.pc[g] = "idle"
    /\ detect' = [detect EXCEPT !.pc[g] = "fast", !.calls = @ + 1]
    /\ UNCHANGED exceptDetect

\* Once.Do: the load of done on the fast path
OnceFast(g) ==
    /\ detect.pc[g] = "fast"
    /\ detect' = [detect EXCEPT !.pc[g] = IF detect.done THEN "return" ELSE "lock"]
    /\ UNCHANGED exceptDetect

\* Once.doSlow: take the mutex and test done again
OnceLock(g) ==
    /\ detect.pc[g] = "lock"
    /\ detect.m = ""
    /\ detect' = [detect EXCEPT !.m = g,
                                !.pc[g] = IF doSlow(detect.done) THEN "run" ELSE "unlock"]
    /\ UNCHANGED exceptDetect

\* the function given to Do: cgroupInfo, errCgroupInfo = getCgroupInfo(),
\* then the deferred store of done
OnceRun(g) ==
    /\ detect.pc[g] = "run"
    /\ \E r \in DetectionResults :
           detect' = [detect EXCEPT !.cgroupInfo = r.info, !.errCgroupInfo = r.err,
                                    !.runs = @ + 1, !.done = TRUE, !.pc[g] = "unlock"]
    /\ UNCHANGED exceptDetect

\* Once.doSlow: the deferred unlock
OnceUnlock(g) ==
    /\ detect.pc[g] = "unlock"
    /\ detect' = [detect EXCEPT !.m = "", !.pc[g] = "return"]
    /\ UNCHANGED exceptDetect

\* return cgroupInfo, errCgroupInfo
DetectReturn(g) ==
    /\ detect.pc[g] = "return"
    /\ detect' = [detect EXCEPT
                      !.pc[g] = "idle",
                      !.returned = Append(@, [info |-> detect.cgroupInfo,
                                              err |-> detect.errCgroupInfo])]
    /\ UNCHANGED exceptDetect

GetCgroupInfo ==
    \E g \in Callers :
        \/ DetectCall(g)
        \/ OnceFast(g)
        \/ OnceLock(g)
        \/ OnceRun(g)
        \/ OnceUnlock(g)
        \/ DetectReturn(g)

SpecDetect == InitPart001 /\ [][GetCgroupInfo]_vars

----------------------------------------------------------------------------
(* Actions of the goroutines calling resolver methods (revision part_001,   *)
(* GetKubeInfo of src/unnamed/part_003), one step at a time                *)

\* a pod of namespace A with label p runs container c in cgroup 1
InitMutex ==
    /\ impl = "part_001"
    /\ wpState = EmptyMap
    /\ nextPolicyID = 1
    /\ podCache = ("pod1" :> (1 :> "c"))
    /\ cgroupIDToPodID = (1 :> "pod1")
    /\ policyValues = EmptyMap
    /\ policyMode = EmptyMap
    /\ cgroupToPolicy = EmptyMap
    /\ nextCgroupID = 2
    /\ lastSpec = EmptyMap
    /\ opCount = 0
    /\ failures = 0
    /\ last = NoLast
    /\ InitOthers
    /\ call = NoCall

\* handleWPAdd, handleWPUpdate or handleWPDelete takes r.mu and makes its first
\* change to r.wpState: the add inserts the new record, the delete removes it
WriterBegin(t) ==
    /\ mx.begun < MaxMutexOps
    /\ mx.th[t].pc = "idle"
    /\ TryLock(mx.mu)
    /\ \E op \in {"add", "update", "delete"}, wp \in WorkloadPolicies,
          nameOrd \in Orders(ContainerNames), cgOrd \in Orders(LiveCgroups(podCache)) :
        LET m == CASE op = "add" -> handleWPAdd_part_001(Machine(nameOrd, cgOrd, 0), wp)
                   [] op = "update" -> handleWPUpdate_part_001(Machine(nameOrd, cgOrd, 0), wp)
                   [] op = "delete" -> handleWPDelete(Machine(nameOrd, cgOrd, 0), wp)
            key == NamespacedName(wp)
        IN  /\ m.next <= MaxPolicyID + 1
            /\ mx' = [mx EXCEPT !.mu = t, !.begun = @ + 1,
                                !.th[t] = [IdleThread EXCEPT
                                              !.pc = "run",
                                              !.run = [calls |-> m.calls, wp |-> m.wp,
                                                       next |-> m.next]]]
            /\ wpState' = CASE op = "add" /\ key \notin DOMAIN wpState ->
                                    MapPut(wpState, key, NewWpInfo)
                            [] op = "delete" /\ key \in DOMAIN wpState -> MapDel(wpState, key)
                            [] OTHER -> wpState
    /\ UNCHANGED <<impl, nextPolicyID, podCache, cgroupIDToPodID, policyValues, policyMode,
                   cgroupToPolicy, nextCgroupID, lastSpec, opCount, failures, last>>
    /\ UNCHANGED exceptMutex

\* the handler issues its next kernel-map call
WriterCall(t) ==
    /\ mx.th[t].pc = "run"
    /\ mx.th[t].j < Len(mx.th[t].run.calls)
    /\ LET k == ApplyCall([vals |-> policyValues, mode |-> policyMode, cg |-> cgroupToPolicy],
                          mx.th[t].run.calls[mx.th[t].j + 1])
       IN  /\ policyValues' = k.vals
           /\ policyMode' = k.mode
           /\ cgroupToPolicy' = k.cg
    /\ mx' = [mx EXCEPT !.th[t].j = @ + 1]
    /\ UNCHANGED <<impl, wpState, nextPolicyID, podCache, cgroupIDToPodID,
                   nextCgroupID, lastSpec, opCount, failures, last>>
    /\ UNCHANGED exceptMutex

\* the handler stores the record and its status and returns through the
\* deferred r.mu.Unlock()
WriterEnd(t) ==
    /\ mx.th[t].pc = "run"
    /\ mx.th[t].j = Len(mx.th[t].run.calls)
    /\ wpState' = mx.th[t].run.wp
    /\ nextPolicyID' = mx.th[t].run.next
    /\ mx' = [mx EXCEPT !.mu = "", !.th[t] = IdleThread]
    /\ UNCHANGED <<impl, podCache, cgroupIDToPodID, policyValues, policyMode,
                   cgroupToPolicy, nextCgroupID, lastSpec, opCount, failures, last>>
    /\ UNCHANGED exceptMutex

\* GetPolicyStatuses takes r.mu and makes the result map
StatusesBegin(t) ==
    /\ mx.begun < MaxMutexOps
    /\ mx.th[t].pc = "idle"
    /\ TryLock(mx.mu)
    /\ mx' = [mx EXCEPT !.mu = t, !.begun = @ + 1,
                        !.th[t] = [IdleThread EXCEPT !.pc = "statuses"]]
    /\ UNCHANGED <<resolverVars, exceptMutex>>

\* one round of "for k, v := range r.wpState { statuses[k] = v.status }"
StatusesCopy(t) ==
    /\ mx.th[t].pc = "statuses"
    /\ \E k \in DOMAIN wpState \ DOMAIN mx.th[t].snap :
           mx' = [mx EXCEPT !.th[t].snap = MapPut(@, k, wpState[k].status)]
    /\ UNCHANGED <<resolverVars, exceptMutex>>

\* the range loop is over: return statuses, through the deferred unlock
StatusesEnd(t) ==
    /\ mx.th[t].pc = "statuses"
    /\ DOMAIN wpState \subseteq DOMAIN mx.th[t].snap
    /\ mx' = [mx EXCEPT !.mu = "", !.statuses = mx.th[t].snap, !.th[t] = IdleThread]
    /\ UNCHANGED <<resolverVars, exceptMutex>>

\* GetKubeInfo(cgID) takes r.mu and looks the pod ID up in r.cgroupIDToPodID
KubeInfoBegin(t) ==
    /\ mx.begun < MaxMutexOps
    /\ mx.th[t].pc = "idle"
    /\ TryLock(mx.mu)
    /\ \E cgID \in 1..MaxCgroupID :
           mx' = [mx EXCEPT !.mu = t, !.begun = @ + 1,
                            !.th[t] = [IdleThread EXCEPT
                                          !.pc = "kubeInfo",
                                          !.pod = IF cgID \in DOMAIN cgroupIDToPodID
                                                  THEN cgroupIDToPodID[cgID] ELSE ""]]
    /\ UNCHANGED <<resolverVars, exceptMutex>>

\* GetKubeInfo returns ErrMissingPodUID, ErrMissingPodInfo or the pod's
\* information from r.podCache, through the deferred unlock
KubeInfoEnd(t) ==
    /\ mx.th[t].pc = "kubeInfo"
    /\ mx' = [mx EXCEPT !.mu = "", !.th[t] = IdleThread,
                        !.kubeInfo = IF mx.th[t].pod = "" THEN "ErrMissingPodUID"
                                     ELSE IF mx.th[t].pod \notin DOMAIN podCache
                                          THEN "ErrMissingPodInfo"
                                          ELSE mx.th[t].pod]
    /\ UNCHANGED <<resolverVars, exceptMutex>>

NextMutex ==
    \E t \in Threads :
        \/ WriterBegin(t)
        \/ WriterCall(t)
        \/ WriterEnd(t)
        \/ StatusesBegin(t)
        \/ StatusesCopy(t)
        \/ StatusesEnd(t)
        \/ KubeInfoBegin(t)
        \/ KubeInfoEnd(t)

SpecMutex == InitMutex /\ [][NextMutex]_vars

----------------------------------------------------------------------------
(* Vocabulary of the properties *)

Range(f) == {f[x] : x \in DOMAIN f}

\* the cgroup_to_policy value of a cgroup, PolicyIDNone when it has no entry
Binding(cg2pol, cg) == IF cg \in DOMAIN cg2pol THEN cg2pol[cg] ELSE PolicyIDNone

\* the selector: the pod carries the policy label, its value is the policy's
\* name and the pod is in the policy's namespace
SelectorKey(pod) == <<podNamespace(pod), policyLabel(pod)>>
Selected(pod, key) == policyLabel(pod) # "" /\ SelectorKey(pod) = key

\* the container name running in a cached cgroup
NameOf(pods, cg2pod, cg) == pods[cg2pod[cg]][cg]

\* the policy IDs a record holds
RecordIDs(wps, key) == Range(wps[key].polByContainer)

----------------------------------------------------------------------------
(* C1 .. C10 *)

\* C1 (namespace isolation of the selector): a handleWPAdd, handleWPUpdate or
\* handleWPDelete for the policy ns/name changes the cgroup_to_policy entry only
\* of running containers whose pod is in namespace ns and carries the label value
\* name; and a container start binds the pod's containers only to policy IDs of
\* the record keyed by the pod's own namespace and label.
C1_NamespaceIsolation ==
    [][/\ last'.op \in {"add", "update", "delete"} =>
            \A cg \in LiveCgroups(podCache) :
                Binding(cgroupToPolicy', cg) # Binding(cgroupToPolicy, cg)
                    => Selected(cgroupIDToPodID[cg], last'.key)
       /\ last'.op = "start" =>
            \A cg \in LiveCgroups(podCache') :
                (/\ Binding(cgroupToPolicy', cg) # Binding(cgroupToPolicy, cg)
                 /\ cg \in DOMAIN cgroupToPolicy')
                    => /\ SelectorKey(last'.pod) \in DOMAIN wpState'
                       /\ cgroupToPolicy'[cg] \in RecordIDs(wpState', SelectorKey(last'.pod))
      ]_vars

\* C2 (invariant 2, binding): after an operation returned successfully in a run
\* without kernel-map failures, every running container whose pod is selected by
\* a policy and whose name is in that policy's spec is bound in cgroup_to_policy
\* to the policy ID the record holds for its name.
C2_Binding ==
    (failures = 0 /\ last.err = NoError /\ last.op \in {"add", "update", "delete", "start"})
        => \A cg \in LiveCgroups(podCache) :
              LET pod == cgroupIDToPodID[cg]
                  key == SelectorKey(pod)
                  name == NameOf(podCache, cgroupIDToPodID, cg)
              IN  (/\ policyLabel(pod) # ""
                   /\ key \in DOMAIN wpState
                   /\ name \in DOMAIN lastSpec[key].rules)
                      => /\ name \in DOMAIN wpState[key].polByContainer
                         /\ Binding(cgroupToPolicy, cg) = wpState[key].polByContainer[name]

\* C3 (invariant 3, no stray binding, for the container that starts late): in a
\* run without kernel-map failures, a container that starts while its pod
\* matches no policy, or while its name is absent from the matched policy's
\* current rules, has no cgroup_to_policy entry when the start returns.
C3_NoStrayBinding ==
    (failures = 0 /\ last.op = "start")
        => LET pod == last.pod
               key == SelectorKey(pod)
               name == NameOf(podCache, cgroupIDToPodID, last.cgID)
           IN  (\/ policyLabel(pod) = ""
                \/ key \notin DOMAIN wpState
                \/ name \notin DOMAIN lastSpec[key].rules)
                   => last.cgID \notin DOMAIN cgroupToPolicy

\* C4 (invariant 1, policy content): after a successful handleWPAdd or
\* handleWPUpdate of a policy, every container name in its record has a
\* policy_mode entry equal to the latest spec's mode and, for a name of the
\* latest spec, a policy_values entry equal to the spec's allowed executables.
C4_PolicyContent ==
    (last.op \in {"add", "update"} /\ last.err = NoError)
        => LET wp == lastSpec[last.key]
               state == wpState[last.key].polByContainer
           IN  \A name \in DOMAIN state :
                  /\ state[name] \in DOMAIN policyMode
                  /\ policyMode[state[name]] = ParseMode(wp.mode)
                  /\ name \in DOMAIN wp.rules
                        => /\ state[name] \in DOMAIN policyValues
                           /\ policyValues[state[name]] = wp.rules[name]

\* C5 (invariant 4, no dangling binding): in every state between operations,
\* whether the last one succeeded or failed, every policy ID that is a value of
\* cgroup_to_policy has an entry in policy_values and in policy_mode.
C5_NoDanglingBinding ==
    \A cg \in DOMAIN cgroupToPolicy :
        cgroupToPolicy[cg] \in DOMAIN policyValues \cap DOMAIN policyMode

\* C6 (invariant 5): no cgroup_to_policy entry has the value PolicyIDNone, and
\* no record holds PolicyIDNone as a policy ID: allocPolicyID never hands it
\* out and the calls passing it are RemoveCgroups calls, which delete entries.
C6_NoPolicyIDNoneBinding ==
    /\ \A cg \in DOMAIN cgroupToPolicy : cgroupToPolicy[cg] # PolicyIDNone
    /\ \A key \in DOMAIN wpState : PolicyIDNone \notin RecordIDs(wpState, key)
    /\ nextPolicyID # PolicyIDNone

\* two policy IDs were allocated, an update has dropped one container key and
\* removed its ID from the kernel maps, and a running container of that name
\* in a pod the policy selects has no binding
C6_Witness ==
    /\ last.op = "update"
    /\ last.err = NoError
    /\ failures = 0
    /\ nextPolicyID = 3
    /\ Cardinality(DOMAIN policyMode) = 1
    /\ Cardinality(DOMAIN wpState[last.key].polByContainer) = 1
    /\ \E cg \in LiveCgroups(podCache) :
          /\ Selected(cgroupIDToPodID[cg], last.key)
          /\ NameOf(podCache, cgroupIDToPodID, cg) \notin DOMAIN lastSpec[last.key].rules
          /\ cg \notin DOMAIN cgroupToPolicy

\* C7 (shrink correctness): a successful handleWPUpdate whose spec drops a
\* container key d of the record removes the cgroup_to_policy entry of every
\* running container named d in the pods the policy selects, removes
\* policy_values and policy_mode of d's policy ID, leaves the binding of every
\* container of pods the policy does not select unchanged, and leaves every
\* bound container with another name of the policy bound as it was.
C7_ShrinkCorrectness ==
    [][(/\ last'.op = "update"
        /\ last'.err = NoError
        /\ last'.key \in DOMAIN wpState)
          => LET key == last'.key
                 state == wpState[key].polByContainer
                 dropped == DOMAIN state \ DOMAIN lastSpec'[key].rules
             IN  /\ \A d \in dropped :
                        /\ state[d] \notin DOMAIN policyValues'
                        /\ state[d] \notin DOMAIN policyMode'
                 /\ \A cg \in LiveCgroups(podCache) :
                        LET pod == cgroupIDToPodID[cg]
                            name == NameOf(podCache, cgroupIDToPodID, cg)
                        IN  /\ (Selected(pod, key) /\ name \in dropped)
                                  => cg \notin DOMAIN cgroupToPolicy'
                            /\ (dropped # {} /\ ~Selected(pod, key))
                                  => Binding(cgroupToPolicy', cg) = Binding(cgroupToPolicy, cg)
                            /\ (dropped # {} /\ Selected(pod, key) /\ name \notin dropped
                                    /\ cg \in DOMAIN cgroupToPolicy)
                                  => Binding(cgroupToPolicy', cg) = Binding(cgroupToPolicy, cg)
      ]_vars

\* C8 (grow by update): a successful handleWPUpdate whose spec has a container
\* key that the record lacks records a freshly allocated policy ID for it, sets
\* policy_values and policy_mode of that ID from the spec, and binds every
\* running container of that name in the pods the policy selects to it.
C8_GrowByUpdate ==
    [][(/\ last'.op = "update"
        /\ last'.err = NoError
        /\ last'.key \in DOMAIN wpState)
          => LET key == last'.key
                 wp == lastSpec'[key]
                 added == DOMAIN wp.rules \ DOMAIN wpState[key].polByContainer
                 state == wpState'[key].polByContainer
             IN  \A name \in added :
                    /\ name \in DOMAIN state
                    /\ state[name] >= nextPolicyID
                    /\ state[name] < nextPolicyID'
                    /\ state[name] \in DOMAIN policyValues' \cap DOMAIN policyMode'
                    /\ policyValues'[state[name]] = wp.rules[name]
                    /\ policyMode'[state[name]] = ParseMode(wp.mode)
                    /\ \A cg \in LiveCgroups(podCache) :
                          (/\ Selected(cgroupIDToPodID[cg], key)
                           /\ NameOf(podCache, cgroupIDToPodID, cg) = name)
                              => Binding(cgroupToPolicy', cg) = state[name]
      ]_vars

\* C9 (delete postcondition): after a successful handleWPDelete of an existing
\* policy the record is gone, no cgroup_to_policy entry has one of the record's
\* policy IDs as value, and policy_values and policy_mode hold none of them.
C9_DeletePostcondition ==
    [][(/\ last'.op = "delete"
        /\ last'.err = NoError
        /\ last'.key \in DOMAIN wpState)
          => /\ last'.key \notin DOMAIN wpState'
             /\ \A id \in RecordIDs(wpState, last'.key) :
                   /\ id \notin Range(cgroupToPolicy')
                   /\ id \notin DOMAIN policyValues'
                   /\ id \notin DOMAIN policyMode'
      ]_vars

\* a delete of an existing policy has returned without error after policy IDs
\* were allocated, a container of a pod the policy selects is running, and the
\* kernel maps are empty
C9_Witness ==
    /\ last.op = "delete"
    /\ last.err = NoError
    /\ nextPolicyID > 1
    /\ \E cg \in LiveCgroups(podCache) : Selected(cgroupIDToPodID[cg], last.key)
    /\ policyValues = EmptyMap
    /\ cgroupToPolicy = EmptyMap

\* C10 (policy-id stability): across a handleWPUpdate, successful or not, a
\* container key that is in the record before the update and in the new spec
\* keeps its policy ID; a key the record gains gets a newly allocated ID, and no
\* more IDs are allocated than the spec has keys the record lacks.
C10_PolicyIDStability ==
    [][(/\ last'.op = "update"
        /\ last'.key \in DOMAIN wpState)
          => LET key == last'.key
                 wp == lastSpec'[key]
                 before == wpState[key].polByContainer
                 after == wpState'[key].polByContainer
             IN  /\ \A name \in DOMAIN before \cap DOMAIN wp.rules :
                        name \in DOMAIN after /\ after[name] = before[name]
                 /\ \A name \in DOMAIN after \ DOMAIN before :
                        after[name] >= nextPolicyID /\ after[name] < nextPolicyID'
                 /\ nextPolicyID' - nextPolicyID <= Cardinality(DOMAIN wp.rules \ DOMAIN before)
      ]_vars

\* an update has retained one recorded key and added a second one
C10_Witness ==
    /\ last.op = "update"
    /\ last.err = NoError
    /\ \E name \in DOMAIN wpState[last.key].polByContainer :
          \E other \in DOMAIN wpState[last.key].polByContainer :
              /\ wpState[last.key].polByContainer[name] = 1
              /\ wpState[last.key].polByContainer[other] = nextPolicyID - 1
              /\ nextPolicyID = 3

----------------------------------------------------------------------------
(* C11 .. C20 *)

\* the (policy key, container name) pairs that hold a policy ID in the records
Allocations(wps) ==
    {a \in WpKeys \X ContainerNames : a[1] \in DOMAIN wps /\ a[2] \in DOMAIN wps[a[1]].polByContainer}
IDOf(wps, a) == wps[a[1]].polByContainer[a[2]]

\* C11 (policy IDs are never reused): the policy ID counter never decreases;
\* every policy ID a step records for a (policy, container) pair that did not
\* hold that ID before the step is one the counter handed out during the step,
\* so it is larger than every ID handed out earlier; and no two pairs of the
\* records hold the same ID.  This covers a delete followed by a re-add.
C11_PolicyIDsNeverReused ==
    [][/\ nextPolicyID' >= nextPolicyID
       /\ \A a \in Allocations(wpState') :
              (a \notin Allocations(wpState) \/ IDOf(wpState, a) # IDOf(wpState', a))
                  => /\ IDOf(wpState', a) >= nextPolicyID
                     /\ IDOf(wpState', a) < nextPolicyID'
       /\ \A a, b \in Allocations(wpState') :
              a # b => IDOf(wpState', a) # IDOf(wpState', b)
      ]_vars

\* a policy was added again after policy ID 1 had been handed out and its
\* record deleted: the only record holds the single ID 2
C11_Witness ==
    /\ last.op = "add"
    /\ last.err = NoError
    /\ DOMAIN wpState = {last.key}
    /\ RecordIDs(wpState, last.key) = {2}
    /\ nextPolicyID = 3
    /\ DOMAIN policyValues = {2}

\* C12 (idempotence of re-apply): in a run without kernel-map failures, a
\* handleWPUpdate of an existing policy with the spec that was applied to it
\* last leaves the record's container -> policy ID map, policy_values,
\* policy_mode and cgroup_to_policy exactly as they were and allocates no
\* policy ID.
C12_IdempotentReapply ==
    [][(/\ last'.op = "update"
        /\ failures' = 0
        /\ last'.key \in DOMAIN wpState
        /\ lastSpec'[last'.key] = lastSpec[last'.key])
          => /\ wpState'[last'.key].polByContainer = wpState[last'.key].polByContainer
             /\ policyValues' = policyValues
             /\ policyMode' = policyMode
             /\ cgroupToPolicy' = cgroupToPolicy
             /\ nextPolicyID' = nextPolicyID
      ]_vars

\* the resolver and kernel state a run of handlers ends in
FinalState(m) == <<m.wp, m.next, m.pods, m.cg2pod, m.vals, m.mode, m.cg, m.err>>

\* from the current state: the container starts in the next cgroup, then the
\* policy is added; and the policy is added, then the container starts.  The
\* range loops of both runs visit names and running containers in the same
\* order.
StartThenAdd(pod, name, wp, nameOrd, cgOrd) ==
    RunAdd(AddPodFromNRI(Machine(nameOrd, cgOrd, 0), pod, name, nextCgroupID), wp)
AddThenStart(pod, name, wp, nameOrd, cgOrd) ==
    LET m1 == RunAdd(Machine(nameOrd, Visit(cgOrd, LiveCgroups(podCache)), 0), wp)
    IN  AddPodFromNRI([m1 EXCEPT !.cgOrd = cgOrd], pod, name, nextCgroupID)

\* C13 (late binding commutes): from every reachable state, for a labelled pod
\* whose policy has no record, starting a container of the pod and then adding
\* the policy ends, without kernel-map failure, in the same pod cache, policy
\* records, policy ID counter and kernel maps as adding the policy and then
\* starting the container, and in both orders the container ends bound to the
\* policy ID recorded for its name when the policy has rules for it.
C13_LateBindingCommutes ==
    \A pod \in PodIDs, wp \in WorkloadPolicies :
        (/\ Selected(pod, NamespacedName(wp))
         /\ NamespacedName(wp) \notin DOMAIN wpState
         /\ nextCgroupID <= MaxCgroupID)
            => \A name \in PodInfo[pod].containers, nameOrd \in Orders(ContainerNames),
                  cgOrd \in Orders(LiveCgroups(podCache) \cup {nextCgroupID}) :
                  LET sa == StartThenAdd(pod, name, wp, nameOrd, cgOrd)
                      as == AddThenStart(pod, name, wp, nameOrd, cgOrd)
                  IN  /\ FinalState(sa) = FinalState(as)
                      /\ Ok(sa)
                      /\ name \in DOMAIN wp.rules
                            => Binding(sa.cg, nextCgroupID) = PolByContainer(sa, NamespacedName(wp))[name]

\* a policy was added without error while a container of a pod it selects,
\* started before the add, was running: the container is bound to the policy
\* ID recorded for its name
C13_Witness ==
    /\ last.op = "add"
    /\ last.err = NoError
    /\ failures = 0
    /\ \E cg \in LiveCgroups(podCache) :
          LET name == NameOf(podCache, cgroupIDToPodID, cg) IN
          /\ Selected(cgroupIDToPodID[cg], last.key)
          /\ name \in DOMAIN wpState[last.key].polByContainer
          /\ Binding(cgroupToPolicy, cg) = wpState[last.key].polByContainer[name]

AlreadyExists == <<"workload policy already exists in internal state">>
DoesNotExist == <<"workload policy does not exist in internal state">>

\* C15 (DuplicatePolicy): a handleWPAdd for a key that has a record returns the
\* "already exists" error, issues no kernel-map call and leaves the records
\* (container -> policy ID maps and statuses), the policy ID counter and the
\* three kernel maps as they were.
C15_DuplicatePolicy ==
    [][(last'.op = "add" /\ last'.key \in DOMAIN wpState)
          => /\ last'.err = AlreadyExists
             /\ last'.n = 0
             /\ wpState' = wpState
             /\ nextPolicyID' = nextPolicyID
             /\ policyValues' = policyValues
             /\ policyMode' = policyMode
             /\ cgroupToPolicy' = cgroupToPolicy
      ]_vars

\* an add was refused for a key whose record holds a policy ID that a running
\* container is bound to
C15_Witness ==
    /\ last.op = "add"
    /\ last.err = AlreadyExists
    /\ last.key \in DOMAIN wpState
    /\ \E cg \in DOMAIN cgroupToPolicy : cgroupToPolicy[cg] \in RecordIDs(wpState, last.key)

\* C16 (UnknownPolicy): a handleWPUpdate or handleWPDelete for a key that has
\* no record returns the "does not exist" error, creates no record, allocates
\* no policy ID, issues no kernel-map call and leaves the kernel maps as they
\* were.
C16_UnknownPolicy ==
    [][(last'.op \in {"update", "delete"} /\ last'.key \notin DOMAIN wpState)
          => /\ last'.err = DoesNotExist
             /\ last'.n = 0
             /\ wpState' = wpState
             /\ nextPolicyID' = nextPolicyID
             /\ policyValues' = policyValues
             /\ policyMode' = policyMode
             /\ cgroupToPolicy' = cgroupToPolicy
      ]_vars

\* an update was refused for a key without a record while a policy of the same
\* name in the other namespace has a record and a running container of a pod
\* carrying the label is bound
C16_Witness ==
    /\ last.op = "update"
    /\ last.err = DoesNotExist
    /\ last.key \notin DOMAIN wpState
    /\ \E key \in DOMAIN wpState : key[2] = last.key[2]
    /\ cgroupToPolicy # EmptyMap

\* the operation of a step ran on a record: an add of a key that had none, or
\* an update or delete of a key that had one
RanOnRecord ==
    \/ last'.op = "add" /\ last'.key \notin DOMAIN wpState
    \/ last'.op \in {"update", "delete"} /\ last'.key \in DOMAIN wpState

\* C17 (status recording): when a handleWPAdd, handleWPUpdate or handleWPDelete
\* that ran on a record returns, then after success the record's status is
\* Ready with the spec's mode and an empty message (after a successful delete
\* the record is gone), and after a failed kernel-map step the record's status
\* is Error with the message of the error returned.
C17_StatusRecording ==
    [][RanOnRecord =>
          IF last'.err = NoError
          THEN IF last'.op = "delete" THEN last'.key \notin DOMAIN wpState'
               ELSE /\ last'.key \in DOMAIN wpState'
                    /\ wpState'[last'.key].status =
                          [state |-> "POLICY_STATE_READY",
                           mode |-> ParsePolicyModeToProto(lastSpec'[last'.key].mode),
                           message |-> NoError]
          ELSE /\ last'.key \in DOMAIN wpState'
               /\ wpState'[last'.key].status.state = "POLICY_STATE_ERROR"
               /\ wpState'[last'.key].status.message = last'.err
      ]_vars

\* what GetPolicyStatuses reports for a key: the state of its record's status,
\* "Absent" when the key has no record
ReportedState(wps, key) == IF key \in DOMAIN wps THEN wps[key].status.state ELSE "Absent"

AdmittedLogs(out, msg) == Len(SelectSeq(out, LAMBDA r : r.msg = msg))
ReportedSuppressed(out, msg) ==
    FoldSeq(LAMBDA acc, r : IF r.msg = suppressionMsg /\ r.log_type = msg THEN acc + r.count ELSE acc,
            0, out)

\* C19 (rate-limiter conservation law): after any sequence of logEvent calls
\* on a limiter, the number of logs of its message that were emitted plus the
\* sum of the counts carried by the suppression records emitted for it equals
\* the number of calls.
C19_RateLimiterConservation ==
    \A x \in Limiters :
        AdmittedLogs(logOutput, LimiterMsg[x]) + ReportedSuppressed(logOutput, LimiterMsg[x])
            = logCalls[x]

\* C20 (suppression record): a logEvent call that is admitted after k > 0
\* denied calls on the same limiter emits exactly one "logs suppressed by rate
\* limiting" record with count k and the log's message as log_type, then the log
\* itself, and resets the limiter's suppressed counter to 0; admitted with
\* k = 0 it emits the log alone; a denied call emits nothing and increments
\* the counter.
C20_SuppressionRecord ==
    [][\A x \in Limiters :
          logCalls'[x] = logCalls[x] + 1 =>
              LET k == rateLimiters[x].suppressed
                  msg == LimiterMsg[x]
                  new == SubSeq(logOutput', Len(logOutput) + 1, Len(logOutput'))
              IN  /\ SubSeq(logOutput', 1, Len(logOutput)) = logOutput
                  /\ IF Allow(rateLimiters[x])
                     THEN /\ new = IF k > 0
                                   THEN <<LogRecord(suppressionMsg, k, msg), LogRecord(msg, 0, "")>>
                                   ELSE <<LogRecord(msg, 0, "")>>
                          /\ rateLimiters'[x].suppressed = 0
                     ELSE /\ new = <<>>
                          /\ rateLimiters'[x].suppressed = k + 1
      ]_vars

\* a log was admitted after two denied logs on the same limiter: the output
\* ends with the suppression record carrying count 2 and then the log
C20_Witness ==
    \E x \in Limiters :
        /\ Len(logOutput) >= 3
        /\ logOutput[Len(logOutput) - 1] = LogRecord(suppressionMsg, 2, LimiterMsg[x])
        /\ logOutput[Len(logOutput)] = LogRecord(LimiterMsg[x], 0, "")
        /\ rateLimiters[x].suppressed = 0
        /\ logCalls[x] = 4

----------------------------------------------------------------------------
(* C21 .. C30 *)

\* the suppression records the logger emitted for a message
SuppressionRecords(out, msg) ==
    SelectSeq(out, LAMBDA r : r.msg = suppressionMsg /\ r.log_type = msg)

\* C21 (scenario S5): a burst of drop-violation log events arriving within one
\* second on a fresh limiter (MaxLogCalls events stand for the scenario's 100),
\* with no further event, has produced exactly one admitted log and one
\* suppression record whose count is the size of the burst minus one.
C21_BurstSuppressionReported ==
    LET msg == LimiterMsg["dropViolationLimiter"] IN
    (logCalls["dropViolationLimiter"] = MaxLogCalls /\ AdmittedLogs(logOutput, msg) = 1) =>
        /\ Len(SuppressionRecords(logOutput, msg)) = 1
        /\ ReportedSuppressed(logOutput, msg) = MaxLogCalls - 1

\* the sum of the counts of a set of drained records, of the results Drain
\* returned, and of the records still in the buffer
RECURSIVE SumCounts(_)
SumCounts(S) ==
    IF S = {} THEN 0
    ELSE LET r == CHOOSE x \in S : TRUE IN r.count + SumCounts(S \ {r})
DrainedCount(results) == FoldSeq(LAMBDA acc, S : acc + SumCounts(S), 0, results)
BufferedCount(records) == SumCounts(ViolationRecords(records))

\* C22 (dedup law of the violation buffer): when N > 0 calls to Record with the
\* same key were made since the previous Drain, the next Drain returns exactly
\* one record for that key, with count N and the timestamp of the last of the
\* calls; it returns no record for a key not recorded since, and records with
\* different keys are separate records.
C22_DedupLaw ==
    [][Len(vbDrained') = Len(vbDrained) + 1 =>
          LET result == vbDrained'[Len(vbDrained')] IN
          \A k \in ViolationKeys :
              LET since == vbHistory.since[k]
                  ofKey == {r \in result : r.key = k}
              IN  IF since.n > 0
                  THEN ofKey = {[key |-> k, count |-> since.n, timestamp |-> since.timestamp]}
                  ELSE ofKey = {}
      ]_vars

\* a Drain returned one record of count 2 or more next to a record of another
\* key
C22_Witness ==
    \E i \in 1..Len(vbDrained) :
        \E r1, r2 \in vbDrained[i] : r1.count >= 2 /\ r1.key # r2.key

\* C23 (Drain is atomic with respect to Record): under every interleaving of
\* the steps of Record and Drain, the counts of all Drain results plus the
\* counts still buffered add up to the number of Record calls that returned
\* (none lost, none returned twice), and a Drain that follows another Drain
\* with no Record in between returns nothing.
C23_DrainAtomic ==
    [][/\ DrainedCount(vbDrained') + BufferedCount(vbRecords') = vbHistory'.returned
       /\ (/\ Len(vbDrained') = Len(vbDrained) + 1
           /\ \A k \in ViolationKeys : vbHistory.since[k].n = 0)
          => vbDrained'[Len(vbDrained')] = {}
      ]_vars

\* a Drain returned records, the Drain after it returned nothing, and a
\* Record made after that is in the buffer
C23_Witness ==
    /\ Len(vbDrained) = 2
    /\ vbDrained[1] # {}
    /\ vbDrained[2] = {}
    /\ vbRecords # EmptyMap

\* the events the consumer has sent or is about to send, oldest first
SentEvents ==
    delivered \o outChan \o
        (IF consumer.pc = "send" THEN <<ProcessEvent(consumer.rec)>> ELSE <<>>)

\* the events of the records of a sequence, in its order
RECURSIVE EventsOf(_)
EventsOf(recs) ==
    IF recs = <<>> THEN <<>> ELSE <<ProcessEvent(Head(recs))>> \o EventsOf(Tail(recs))

\* the consumer waits in the send: it holds an event and the channel is full
BlockedInSend == consumer.pc = "send" /\ Len(outChan) = ChanCap

\* C24 (process-event consumer delivery): processRingbufEvents sends exactly
\* one ProcessEvent for every record read whose header parses and whose
\* path_len is at most 4096, in ring arrival order, and nothing for the other
\* records; while the channel is full the consumer waits in the send, reading
\* no further record and dropping nothing.
C24_ConsumerDelivery ==
    [][/\ SentEvents' =
            EventsOf(SelectSeq(ring'.read,
                               LAMBDA rec : rec.headerOK /\ rec.pathLen <= maxPathLen))
       /\ BlockedInSend => (consumer' = consumer /\ ring'.read = ring.read)
      ]_vars

\* C24 as the code has it: a record is sent when its header parses, its
\* path_len is at most 4096 and the path can be read from the sample (the
\* path is empty or bytes follow the header); every other record is skipped
\* with one error log.
C24_ConsumerDeliveryAmended ==
    [][/\ SentEvents' =
            EventsOf(SelectSeq(ring'.read,
                               LAMBDA rec : /\ rec.headerOK
                                            /\ rec.pathLen <= maxPathLen
                                            /\ (rec.pathLen = 0 \/ rec.avail > 0)))
       /\ Len(SentEvents') + Len(consumer'.logs) = Len(ring'.read)
       /\ BlockedInSend => (consumer' = consumer /\ ring'.read = ring.read)
      ]_vars

\* two events were delivered in ring order around a skipped record whose
\* path_len is 4097, after the consumer had waited for room in the channel
C24_Witness ==
    /\ Len(delivered) = 2
    /\ delivered[1].CgroupID = 1
    /\ delivered[2].CgroupID = 3
    /\ delivered[1].ExePath = maxPathLen
    /\ consumer.logs = <<"invalid path length in ringbuf event">>

\* C25 (drop-newest fanout): when the channel is full the consumer does not
\* stall: it can take its next step (dropping the event and reading on)
\* without the subscriber receiving first.
C25_DropNewest == BlockedInSend => ENABLED ConsumerStep

\* C26 (cancellation of the ring-buffer consumers): once the context is
\* cancelled, processRingbufEvents and loggerStart each eventually return,
\* whatever they were doing; they return nil unless a read failed with an
\* error other than the reader being closed, and nil only with the reader
\* closed.
C26_CancellationReturns ==
    /\ ctxDone ~> (consumer.pc = "returned")
    /\ ctxDone ~> (logTask.pc = "returned")
    /\ [](consumer.pc = "returned" =>
            /\ consumer.ret = (IF consumer.readFailed THEN "error" ELSE "nil")
            /\ consumer.ret = "nil" => ring.closed)
    /\ [](logTask.pc = "returned" /\ ~logTask.readFailed =>
            logTask.ret = "nil" /\ logTask.closed)

\* the positions of a token in a string, and the smallest of a set of
\* positions
PositionsOf(s, tok) == {i \in 1..Len(s) : s[i] = tok}
First(S) == CHOOSE i \in S : \A j \in S : i <= j

\* the slice:prefix:name reading of a string with exactly two ':'
SlicePartOf(s) == SubSeq(s, 1, First(PositionsOf(s, ":")) - 1)
PrefixPartOf(s) ==
    LET colons == PositionsOf(s, ":")
    IN  SubSeq(s, First(colons) + 1, First(colons \ {First(colons)}) - 1)
NamePartOf(s) ==
    LET colons == PositionsOf(s, ":")
    IN  SubSeq(s, First(colons \ {First(colons)}) + 1, Len(s))
ResolvedName(s) ==
    IF HasSuffix(NamePartOf(s), suffix)
    THEN NamePartOf(s)
    ELSE PrefixPartOf(s) \o <<"-">> \o NamePartOf(s) \o <<".scope">>

\* C27 (ParseCgroupsPath): an input containing '/' is returned unchanged; an
\* input of exactly three ':'-separated parts slice:prefix:name returns
\* <expanded slice>/<resolved name>, the resolved name being name if it ends
\* in ".slice" and prefix-name.scope otherwise, and fails if the slice does
\* not expand; every other input returns an error.
C27_ParseCgroupsPath ==
    call.fn = "ParseCgroupsPath" =>
        LET s == call.arg IN
        IF Contains(s, "/")
        THEN call.res = PathOk(s)
        ELSE IF Cardinality(PositionsOf(s, ":")) = 2
        THEN LET slice == SystemdExpandSlice(SlicePartOf(s)) IN
             IF slice.err
             THEN call.res = PathFailed
             ELSE call.res = PathOk(slice.path \o <<"/">> \o ResolvedName(s))
        ELSE call.res = PathFailed

\* C27 as the code has it: the expanded slice and the resolved name are
\* joined as a path, so the root slice "-.slice" gives /<resolved name>, with
\* one separator.
C27_ParseCgroupsPathAmended ==
    call.fn = "ParseCgroupsPath" =>
        LET s == call.arg IN
        IF Contains(s, "/")
        THEN call.res = PathOk(s)
        ELSE IF Cardinality(PositionsOf(s, ":")) = 2
        THEN LET slice == SystemdExpandSlice(SlicePartOf(s)) IN
             IF slice.err
             THEN call.res = PathFailed
             ELSE call.res = PathOk(IF slice.path = <<"/">>
                                    THEN <<"/">> \o ResolvedName(s)
                                    ELSE slice.path \o <<"/">> \o ResolvedName(s))
        ELSE call.res = PathFailed

\* "a.slice:a:b" was parsed to "/a.slice/a-b.scope"
C27_Witness ==
    /\ call.fn = "ParseCgroupsPath"
    /\ call.arg = <<"a", ".slice", ":", "a", ":", "b">>
    /\ call.res = PathOk(<<"/", "a", ".slice", "/", "a", "-", "b", ".scope">>)

\* the path of the prefixes of a name that end before the given positions:
\* one component /<prefix>.slice per position, shortest first
RECURSIVE PrefixPath(_, _)
PrefixPath(name, ends) ==
    IF ends = {}
    THEN <<>>
    ELSE <<"/">> \o SubSeq(name, 1, First(ends) - 1) \o <<suffix>>
            \o PrefixPath(name, ends \ {First(ends)})

\* C28 (SystemdExpandSlice): for a slice name c1-c2-...-cn.slice with every
\* ci non-empty and no '/', the result is the n-component path whose k-th
\* component is c1-...-ck.slice; "-.slice" yields "/"; a name that does not end
\* in ".slice", is just ".slice", contains '/', or has an empty
\* dash-separated component is rejected with an error.
C28_SystemdExpandSlice ==
    call.fn = "SystemdExpandSlice" =>
        LET s == call.arg
            name == SubSeq(s, 1, Len(s) - 1)
            ends == PositionsOf(name, "-") \cup {Len(name) + 1}
            emptyComponent == \E e \in ends : e = 1 \/ name[e - 1] = "-"
        IN  IF s = <<"-", suffix>>
            THEN call.res = PathOk(<<"/">>)
            ELSE IF /\ HasSuffix(s, suffix)
                    /\ s # <<suffix>>
                    /\ ~Contains(s, "/")
                    /\ ~emptyComponent
            THEN /\ call.res = PathOk(PrefixPath(name, ends))
                 /\ Cardinality(PositionsOf(call.res.path, "/")) = Cardinality(ends)
            ELSE call.res = PathFailed

\* "a-b.slice" was expanded to "/a.slice/a-b.slice"
C28_Witness ==
    /\ call.fn = "SystemdExpandSlice"
    /\ call.arg = <<"a", "-", "b", ".slice">>
    /\ call.res = PathOk(<<"/", "a", ".slice", "/", "a", "-", "b", ".slice">>)

\* the controller lines findInterestingControllerV1 considers: the first
\* CgroupSubsysCount lines after the header
Considered(lines) ==
    LET body == IF lines = <<>> THEN <<>> ELSE Tail(lines)
    IN  SubSeq(body, 1, IF Len(body) < CgroupSubsysCount THEN Len(body) ELSE CgroupSubsysCount)

\* the preferred controller among a sequence of lines: memory, else pids,
\* else cpu, else none
Preferred(ls) ==
    IF IndexOfName(ls, "memory") # 0 THEN "memory"
    ELSE IF IndexOfName(ls, "pids") # 0 THEN "pids"
    ELSE IF IndexOfName(ls, "cpu") # 0 THEN "cpu"
    ELSE ""

\* C29 (cgroup v1 controller selection): findInterestingControllerV1
\* considers only the first 14 controller lines after the header, returns the
\* first of memory, pids, cpu (in this order of preference) that occurs among
\* them with its zero-based line position, and returns an error with empty
\* name and index 0 when none of the three occurs among those lines.
C29_ControllerSelection ==
    call.fn = "findInterestingControllerV1" =>
        LET ls == Considered(call.arg) IN
        IF Preferred(ls) # ""
        THEN call.res = Controller(Preferred(ls), IndexOfName(ls, Preferred(ls)) - 1)
        ELSE call.res = NoController

\* C29 as the code has it: the selection is made when every line read has a
\* field; a line without fields met before 14 names are collected makes the
\* function return an error with empty name and index 0, whatever the other
\* lines hold.
C29_ControllerSelectionAmended ==
    call.fn = "findInterestingControllerV1" =>
        LET ls == Considered(call.arg)
            blank == IndexOfName(ls, "") # 0
        IN  IF ~blank /\ Preferred(ls) # ""
            THEN call.res = Controller(Preferred(ls), IndexOfName(ls, Preferred(ls)) - 1)
            ELSE call.res = NoController

\* cpu at line 14 was selected with index 13 although memory is at line 15
C29_Witness ==
    /\ call.fn = "findInterestingControllerV1"
    /\ Len(call.arg) >= 16
    /\ call.arg[15] = "cpu"
    /\ call.arg[16] = "memory"
    /\ call.res = Controller("cpu", 13)

\* the bucket sizes as a set
Buckets == {stringMapSizes[i] : i \in 1..Len(stringMapSizes)}

----------------------------------------------------------------------------
(* C31 .. C40 *)

\* the number of consecutive failed attempts that end at attempt i
RECURSIVE FailedRun(_, _)
FailedRun(attempts, i) ==
    IF i = 0 \/ attempts[i] # "failed" THEN 0 ELSE 1 + FailedRun(attempts, i - 1)

\* whether the transport had been lost at or before attempt i
LostBefore(attempts, i) == \E j \in 1..i : attempts[j] = "lost"

Min(a, b) == IF a < b THEN a ELSE b

\* C31: NRI reconnect backoff.  After the transport is lost the handler waits
\* 1s before the first reconnect attempt, doubles the wait on each
\* consecutive failed attempt up to 5s, returns only when the context is
\* cancelled, and starts no attempt after it has observed the cancellation.
C31_ReconnectBackoff ==
    /\ [](/\ \A i \in 1..Len(nri.waits) :
                LostBefore(nri.attempts, i) =>
                    nri.waits[i] = Min(2 ^ FailedRun(nri.attempts, i), 5)
          /\ nri.pc = "returned" => nri.ctxDone)
    /\ [][nri.pc = "returned" => nri' = nri]_vars

\* C32: cgroup detection runs at most once.  However many goroutines call
\* GetCgroupInfo, and however often, getCgroupInfo has run exactly once when
\* any call has returned, and every call has returned the same pair, the one
\* of that run, also when the run failed.
C32_DetectionOnce ==
    /\ detect.runs <= 1
    /\ Len(detect.returned) > 0 => detect.runs = 1
    /\ \A i \in 1..Len(detect.returned) :
           detect.returned[i] = [info |-> detect.cgroupInfo, err |-> detect.errCgroupInfo]

\* two calls have returned a failed detection while a goroutine that found
\* done unset on the fast path still waits for the mutex
C32_Witness ==
    /\ Len(detect.returned) >= 2
    /\ detect.returned[1].err # ""
    /\ \E g \in Callers : detect.pc[g] = "lock" /\ detect.done

\* the policy handlers and the runs one of them can make from the current
\* state: the object delivered and the orders its range loops take
PolicyOps == {"add", "update", "delete"}
RunHandler(op, m, wp) ==
    CASE op = "add" -> RunAdd(m, wp)
      [] op = "update" -> RunUpdate(m, wp)
      [] op = "delete" -> handleWPDelete(m, wp)
HandlerRuns ==
    [op : PolicyOps, wp : WorkloadPolicies, nameOrd : Orders(ContainerNames),
     cgOrd : Orders(LiveCgroups(podCache))]

\* the resolver and the kernel maps after the first j kernel-map calls of a
\* run r without failure.  A failing call changes nothing and a handler issues
\* no call after an error, so this is the state the run leaves when its call
\* j + 1 fails
Calls(r) == RunHandler(r.op, Machine(r.nameOrd, r.cgOrd, 0), r.wp).n
AfterCalls(r, j) ==
    RunHandler(r.op, Machine(r.nameOrd, r.cgOrd, IF j = Calls(r) THEN 0 ELSE j + 1), r.wp)

\* every bound policy ID has its values and its mode
Populated(vals, mode, cg) ==
    \A c \in DOMAIN cg : cg[c] \in DOMAIN vals \cap DOMAIN mode

\* C33: publish ordering at every step.  From a state where every bound policy
\* ID has values and mode, after every kernel-map call of a handleWPAdd,
\* handleWPUpdate or handleWPDelete every cgroup in cgroup_to_policy maps to a
\* policy ID with an entry in policy_values and in policy_mode.
C33_PublishOrdering ==
    Populated(policyValues, policyMode, cgroupToPolicy) =>
        \A r \in HandlerRuns : \A j \in 0..Calls(r) :
            LET m == AfterCalls(r, j) IN Populated(m.vals, m.mode, m.cg)

\* the kernel-map calls of a run without failure, in the order issued
CallsOf(r) == RunHandler(r.op, Machine(r.nameOrd, r.cgOrd, 0), r.wp).calls

\* the positions in calls of the calls that unbind cgroups, of the calls
\* that delete the mode entry of id, and of those that remove its values
Unbinds(calls) ==
    {i \in DOMAIN calls : calls[i].fn = "cgroup_to_policy"
                          /\ calls[i].op \in {"RemovePolicy", "RemoveCgroups"}}
ModeDrops(calls, id) ==
    {i \in DOMAIN calls : calls[i].fn = "policy_mode" /\ calls[i].op = "DeleteMode"
                          /\ calls[i].id = id}
ValueDrops(calls, id) ==
    {i \in DOMAIN calls : calls[i].fn = "policy_values"
                          /\ calls[i].op = "RemoveValuesFromPolicy" /\ calls[i].id = id}

\* C34: deletion ordering.  Whenever a handleWPDelete or a handleWPUpdate
\* tears a policy ID down, a call unbinding cgroups comes first, the call
\* deleting the ID's policy_mode entry second, and the call removing its
\* policy_values entry only after that.
C34_DeletionOrdering ==
    \A r \in HandlerRuns :
        r.op \in {"update", "delete"} =>
            LET calls == CallsOf(r) IN
            \A id \in 1..MaxPolicyID :
                \A v \in ValueDrops(calls, id) :
                    /\ \E u \in Unbinds(calls) : u < v
                    /\ \E d \in ModeDrops(calls, id) :
                           d < v /\ \E u \in Unbinds(calls) : u < d

\* the kernel maps after the first n calls of a sequence, from the current ones
RECURSIVE Replay(_, _)
Replay(calls, n) ==
    IF n = 0 THEN [vals |-> policyValues, mode |-> policyMode, cg |-> cgroupToPolicy]
    ELSE ApplyCall(Replay(calls, n - 1), calls[n])

\* C35: the first error aborts without rollback.  When kernel-map call j of a
\* handleWPAdd, handleWPUpdate or handleWPDelete fails, the handler returns an
\* error that wraps the call's error, has issued exactly the j calls the run
\* without failure issues first, and leaves the kernel maps as the first
\* j - 1 calls made them.
C35_FirstErrorAborts ==
    \A r \in HandlerRuns :
        LET full == RunHandler(r.op, Machine(r.nameOrd, r.cgOrd, 0), r.wp) IN
        \A j \in 1..full.n :
            LET f == RunHandler(r.op, Machine(r.nameOrd, r.cgOrd, j), r.wp)
                k == Replay(full.calls, j - 1)
            IN  /\ ~Ok(f)
                /\ f.err[Len(f.err)] = "kernel map error"
                /\ f.n = j /\ Len(f.calls) = j
                /\ ~f.calls[j].ok
                /\ SubSeq(f.calls, 1, j - 1) = SubSeq(full.calls, 1, j - 1)
                /\ f.vals = k.vals /\ f.mode = k.mode /\ f.cg = k.cg

\* an add or update has failed at its second or a later kernel-map call and
\* has left values without mode for a policy ID
C35_Witness ==
    /\ last.op \in {"add", "update"}
    /\ last.err # NoError
    /\ last.n >= 2
    /\ DOMAIN policyValues \ DOMAIN policyMode # {}

\* the goroutines inside a resolver method
Inside == {t \in Threads : mx.th[t].pc # "idle"}

\* C36: mutual exclusion.  Under any interleaving of goroutines calling
\* handleWPAdd, handleWPUpdate, handleWPDelete, GetPolicyStatuses and
\* GetKubeInfo, at most one of them is inside its method, and it holds r.mu;
\* so the kernel-map calls of two handlers never interleave, and the statuses
\* GetPolicyStatuses copies and returns are those of records between
\* operations: they equal the record's current status and are never the zero
\* status of a record whose add is still running.
C36_MutualExclusion ==
    /\ Cardinality(Inside) <= 1
    /\ \A t \in Inside : mx.mu = t
    /\ \A t \in Threads :
           mx.th[t].pc = "statuses" =>
               \A k \in DOMAIN mx.th[t].snap :
                   /\ k \in DOMAIN wpState
                   /\ mx.th[t].snap[k] = wpState[k].status
                   /\ mx.th[t].snap[k] # ZeroStatus
    /\ \A k \in DOMAIN mx.statuses : mx.statuses[k] # ZeroStatus

\* a handler is between two of its kernel-map calls, with a new record still
\* at its zero status, after GetPolicyStatuses has returned the status of an
\* earlier record
C36_Witness ==
    \E t \in Threads :
        /\ mx.th[t].pc = "run"
        /\ mx.th[t].j >= 1 /\ mx.th[t].j < Len(mx.th[t].run.calls)
        /\ \E k \in DOMAIN wpState : wpState[k].status = ZeroStatus
        /\ DOMAIN mx.statuses # {}

\* the last operation was a handleWPAdd that a kernel-map call made fail
FailedAdd ==
    /\ last.op = "add"
    /\ last.err # NoError
    /\ last.err[Len(last.err)] = "kernel map error"

\* invariants 1 and 2 for the policy key with the spec wp in the resolver and
\* kernel state u: every container key of the spec has a policy ID with the
\* spec's values and mode, and every running container the policy selects
\* whose name is in the spec is bound to the ID of its name
PolicyEstablished(u, key, wp) ==
    LET state == u.wp[key].polByContainer IN
    /\ \A name \in DOMAIN wp.rules :
           /\ name \in DOMAIN state
           /\ state[name] \in DOMAIN u.vals /\ u.vals[state[name]] = wp.rules[name]
           /\ state[name] \in DOMAIN u.mode /\ u.mode[state[name]] = ParseMode(wp.mode)
    /\ \A cg \in LiveCgroups(u.pods) :
           (Selected(u.cg2pod[cg], key) /\ NameOf(u.pods, u.cg2pod, cg) \in DOMAIN wp.rules)
               => Binding(u.cg, cg) = state[NameOf(u.pods, u.cg2pod, cg)]

\* invariant 3 for the policy key: a running container the policy does not
\* select, or whose name is not in the spec, is bound to none of its IDs
NoStrayBindingOf(u, key, wp) ==
    \A cg \in LiveCgroups(u.pods) :
        ~(Selected(u.cg2pod[cg], key) /\ NameOf(u.pods, u.cg2pod, cg) \in DOMAIN wp.rules)
            => Binding(u.cg, cg) \notin Range(u.wp[key].polByContainer)

\* C37: recovery by update.  After a handleWPAdd that failed at a kernel-map
\* call, a handleWPUpdate with the same spec whose kernel-map calls all succeed
\* returns no error, sets the record to Ready and establishes invariants 1 to
\* 3 for the policy.
C37_RecoveryByUpdate ==
    FailedAdd =>
        \A nameOrd \in Orders(ContainerNames), cgOrd \in Orders(LiveCgroups(podCache)) :
            LET wp == lastSpec[last.key]
                u == RunUpdate(Machine(nameOrd, cgOrd, 0), wp)
            IN  /\ Ok(u)
                /\ impl = "part_001" => u.wp[last.key].status.state = "POLICY_STATE_READY"
                /\ PolicyEstablished(u, last.key, wp)
                /\ NoStrayBindingOf(u, last.key, wp)

\* C38: removal is independent of the number of running pods.  When a
\* handleWPUpdate without kernel-map failure removes a container key (a key of
\* the record that the new spec does not name), the key is dropped from
\* the record and the values and the mode of its policy ID are each removed
\* by exactly one call, whether zero, one or several running pods match.
C38_RemovalIndependentOfPods ==
    \A wp \in WorkloadPolicies, nameOrd \in Orders(ContainerNames),
       cgOrd \in Orders(LiveCgroups(podCache)) :
        LET key == NamespacedName(wp) IN
        key \in DOMAIN wpState =>
            LET state == wpState[key].polByContainer
                u == RunUpdate(Machine(nameOrd, cgOrd, 0), wp)
            IN  \A name \in DOMAIN state \ DOMAIN wp.rules :
                    /\ name \notin DOMAIN u.wp[key].polByContainer
                    /\ Cardinality(ValueDrops(u.calls, state[name])) = 1
                    /\ Cardinality(ModeDrops(u.calls, state[name])) = 1

\* the machine of the next handler run, started in the state the run m left
NextRun(m) ==
    [m EXCEPT !.err = NoError, !.n = 0, !.failAt = 0, !.calls = <<>>, !.new = EmptyMap]

\* C39: no leaked policy IDs.  From any reachable state, let an add, update
\* or delete of policy P fail at one of its kernel-map calls and let the next
\* add, update or delete of P succeed.  Then, among the IDs allocated for P
\* (those of P's record before the two operations and those allocated during
\* them), the IDs with an entry in policy_values or policy_mode are exactly
\* the IDs of P's record, and none if P has no record.
C39_NoLeakedPolicyIDs ==
    \A r \in HandlerRuns : \A op2 \in PolicyOps : \A j \in 1..Calls(r) :
        LET key == NamespacedName(r.wp)
            f == RunHandler(r.op, Machine(r.nameOrd, r.cgOrd, j), r.wp)
            g == RunHandler(op2, NextRun(f), r.wp)
            mine == (IF key \in DOMAIN wpState THEN RecordIDs(wpState, key) ELSE {})
                        \cup (nextPolicyID..(g.next - 1))
        IN  Ok(g) =>
                (DOMAIN g.vals \cup DOMAIN g.mode) \cap mine
                    = (IF key \in DOMAIN g.wp THEN RecordIDs(g.wp, key) ELSE {})

\* C40: no enforcement gap for retained containers.  During a
\* handleWPUpdate, a running container of a pod the policy selects whose name
\* is in the record before the update and in the new spec, and which is bound
\* to the populated ID of its name before the update, stays bound to that ID
\* after every kernel-map call of the update, and the ID keeps its values and
\* its mode after every call.
C40_NoEnforcementGap ==
    \A wp \in WorkloadPolicies :
        LET key == NamespacedName(wp) IN
        key \in DOMAIN wpState =>
            LET state == wpState[key].polByContainer
                retained == {cg \in LiveCgroups(podCache) :
                                LET name == NameOf(podCache, cgroupIDToPodID, cg) IN
                                /\ Selected(cgroupIDToPodID[cg], key)
                                /\ name \in DOMAIN state \cap DOMAIN wp.rules
                                /\ Binding(cgroupToPolicy, cg) = state[name]
                                /\ state[name] \in DOMAIN policyValues \cap DOMAIN policyMode}
            IN  retained # {} =>
                    \A nameOrd \in Orders(ContainerNames), cgOrd \in Orders(LiveCgroups(podCache)) :
                        LET full == RunUpdate(Machine(nameOrd, cgOrd, 0), wp) IN
                        \A j \in 0..full.n :
                            LET m == IF j = full.n THEN full
                                     ELSE RunUpdate(Machine(nameOrd, cgOrd, j + 1), wp)
                            IN  \A cg \in retained :
                                    LET id == state[NameOf(podCache, cgroupIDToPodID, cg)] IN
                                    /\ Binding(m.cg, cg) = id
                                    /\ id \in DOMAIN m.vals \cap DOMAIN m.mode

====
